---------------------------- MODULE Spec2Model ----------------------------
(***************************************************************************)
(* A model of morg's reconciliation engine: path parsing and album         *)
(* catalogue (album.rs), the directory and device Locations (location.rs)  *)
(* and the Sync command with sync_to_loc, get_ft_src_album,                *)
(* ensure_album_is_in_location and convert_src_album (main.rs).            *)
(*                                                                         *)
(* Strings are sequences of tokens (a word, " ", "-", ".", a bracketed     *)
(* tag such as "[FLAC]"), so that split, replace, trim and ends_with are   *)
(* computed the way the code computes them.  A path is a sequence of       *)
(* segments, the first one being the root.                                 *)
(***************************************************************************)
EXTENDS Integers, Sequences, FiniteSets, TLC

-----------------------------------------------------------------------------
(* Bounds of the model *)

\* number of Sync runs a behaviour performs one after the other
MaxRuns == 2
\* number of albums below the source root in the initial state
MaxSrcAlbums == 2
\* number of albums at the directory destination in the initial state
MaxDstAlbums == 1

-----------------------------------------------------------------------------
(* Strings as token sequences *)

None == <<"None">>

Some(v) == <<"Some", v>>

IsSome(o) == o[1] = "Some"

Unwrap(o) == o[2]

\* s has the token sequence p at position i
MatchAt(s, p, i) ==
    /\ i >= 1
    /\ i + Len(p) - 1 <= Len(s)
    /\ \A j \in 1..Len(p) : s[i + j - 1] = p[j]

\* str::ends_with
EndsWith(s, p) == Len(p) <= Len(s) /\ MatchAt(s, p, Len(s) - Len(p) + 1)

\* position of the first occurrence of p in s, 0 when there is none
FindFirst(s, p) ==
    LET hits == {i \in 1..Len(s) : MatchAt(s, p, i)}
    IN  IF hits = {} THEN 0 ELSE CHOOSE i \in hits : \A j \in hits : i <= j

\* position of the last occurrence of p in s, 0 when there is none
FindLast(s, p) ==
    LET hits == {i \in 1..Len(s) : MatchAt(s, p, i)}
    IN  IF hits = {} THEN 0 ELSE CHOOSE i \in hits : \A j \in hits : i >= j

\* str::split_once: the parts before and after the first occurrence of p
SplitOnce(s, p) ==
    LET i == FindFirst(s, p)
    IN  IF i = 0 THEN None
        ELSE Some(<<SubSeq(s, 1, i - 1), SubSeq(s, i + Len(p), Len(s))>>)

\* str::rsplit_once: the parts before and after the last occurrence of p
RSplitOnce(s, p) ==
    LET i == FindLast(s, p)
    IN  IF i = 0 THEN None
        ELSE Some(<<SubSeq(s, 1, i - 1), SubSeq(s, i + Len(p), Len(s))>>)

\* str::replace: every non-overlapping occurrence of p, left to right, becomes r
RECURSIVE ReplaceAll(_, _, _)
ReplaceAll(s, p, r) ==
    IF Len(s) = 0 \/ Len(p) = 0 THEN s
    ELSE IF MatchAt(s, p, 1)
         THEN r \o ReplaceAll(SubSeq(s, Len(p) + 1, Len(s)), p, r)
         ELSE <<s[1]>> \o ReplaceAll(SubSeq(s, 2, Len(s)), p, r)

RECURSIVE TrimStart(_)
TrimStart(s) ==
    IF Len(s) > 0 /\ s[1] = " " THEN TrimStart(Tail(s)) ELSE s

RECURSIVE TrimEnd(_)
TrimEnd(s) ==
    IF Len(s) > 0 /\ s[Len(s)] = " " THEN TrimEnd(SubSeq(s, 1, Len(s) - 1)) ELSE s

\* str::trim
Trim(s) == TrimEnd(TrimStart(s))

\* [String]::join
RECURSIVE Join(_, _)
Join(parts, sep) ==
    IF Len(parts) = 0 THEN <<>>
    ELSE IF Len(parts) = 1 THEN parts[1]
    ELSE parts[1] \o sep \o Join(Tail(parts), sep)

\* the separator " - "
Dash == <<" ", "-", " ">>

\* format!("[{ext}]")
Bracket(ext) == "[" \o ext \o "]"

\* str::to_uppercase on the known extensions
ToUppercase(ext) ==
    CASE ext = "mp3" -> "MP3"
      [] ext = "flac" -> "FLAC"
      [] ext = "wav" -> "WAV"
      [] ext = "m4a" -> "M4A"
      [] OTHER -> ext

\* the tokens of the model in ascending string order (String's Ord)
TokenOrder ==
    <<" ", "-", ".", "01 Track", "02 Track", "Choke", "Flux", "Poppy", "Zig",
      "[FLAC]", "[Flac]", "[MP3]", "[flac]", "[m4a]", "[mp3]", "[wav]",
      "cover", "flac", "jpg", "m4a", "mp3", "wav">>

TokenRank(t) ==
    IF \E i \in 1..Len(TokenOrder) : TokenOrder[i] = t
    THEN CHOOSE i \in 1..Len(TokenOrder) : TokenOrder[i] = t
    ELSE Len(TokenOrder) + 1

\* a < b in the lexicographic order of strings
RECURSIVE StrLess(_, _)
StrLess(a, b) ==
    IF Len(b) = 0 THEN FALSE
    ELSE IF Len(a) = 0 THEN TRUE
    ELSE IF a[1] = b[1] THEN StrLess(Tail(a), Tail(b))
    ELSE TokenRank(a[1]) < TokenRank(b[1])

\* Vec::sort of a set of distinct strings
RECURSIVE SortStrs(_)
SortStrs(S) ==
    IF S = {} THEN <<>>
    ELSE LET m == CHOOSE x \in S : \A y \in S \ {x} : StrLess(x, y)
         IN  <<m>> \o SortStrs(S \ {m})

Range(s) == {s[i] : i \in 1..Len(s)}

\* an arbitrary enumeration of a finite set
RECURSIVE SetToSeq(_)
SetToSeq(S) ==
    IF S = {} THEN <<>>
    ELSE LET x == CHOOSE x \in S : TRUE IN <<x>> \o SetToSeq(S \ {x})

-----------------------------------------------------------------------------
(* File types *)

IMAGE_EXTENSIONS == <<"jpeg", "jpg", "png">>

MUSIC_EXTENSIONS == <<"mp3", "flac", "wav", "m4a">>

FileType == {"M4A", "MP3", "Wav", "Flac"}

\* FileType::value_variants
value_variants == <<"M4A", "MP3", "Wav", "Flac">>

\* FileType::to_possible_value().get_name()
get_name(ft) ==
    CASE ft = "M4A" -> "m4a"
      [] ft = "MP3" -> "mp3"
      [] ft = "Wav" -> "wav"
      [] ft = "Flac" -> "flac"

\* FileType::is_lossless
is_lossless(ft) == ft \in {"Wav", "Flac"}

-----------------------------------------------------------------------------
(* Paths and the file system *)

\* Path::parent
Parent(path) == SubSeq(path, 1, Len(path) - 1)

\* Path::file_name
FileName(path) == path[Len(path)]

\* Path::join
PathJoin(dir, name) == Append(dir, name)

IsPrefix(p, q) == Len(p) <= Len(q) /\ SubSeq(q, 1, Len(p)) = p

\* Path::extension: what follows the last "." of the file name
Extension(path) ==
    LET name == FileName(path)
        i == FindLast(name, <<".">>)
    IN  IF i <= 1 THEN None ELSE Some(SubSeq(name, i + 1, Len(name)))

is_image(file) ==
    LET ext == Extension(file)
    IN  IsSome(ext) /\ \E i \in 1..Len(IMAGE_EXTENSIONS) : Unwrap(ext) = <<IMAGE_EXTENSIONS[i]>>

is_music(file) ==
    LET ext == Extension(file)
    IN  IsSome(ext) /\ \E i \in 1..Len(MUSIC_EXTENSIONS) : Unwrap(ext) = <<MUSIC_EXTENSIONS[i]>>

-----------------------------------------------------------------------------
(* Albums *)

\* Album::new
NewAlbum(title, artist, tracks, dir_path, cover_files, parsed_title, parsed_artist) ==
    [title |-> title, artist |-> artist, tracks |-> tracks, dir_path |-> dir_path,
     cover_files |-> cover_files, parsed_title |-> parsed_title,
     parsed_artist |-> parsed_artist]

\* Album::key
Key(a) == a.parsed_artist \o <<"###">> \o a.parsed_title

\* the extensions Album::file_type collects from the tracks
TrackExtensions(a) ==
    {SubSeq(t, FindLast(t, <<".">>) + 1, Len(t)) :
        t \in {u \in Range(a.tracks) : FindLast(u, <<".">>) > 0}}

\* Album::file_type, the variant named like the extension
VariantNamed(ext) ==
    IF \E i \in 1..Len(value_variants) : <<get_name(value_variants[i])>> = ext
    THEN Some(CHOOSE v \in FileType : <<get_name(v)>> = ext)
    ELSE None

FileTypeOf_Any(file_types) ==
    IF file_types # {}
    THEN VariantNamed(CHOOSE e \in file_types : TRUE)
    ELSE None

\* Album::file_type, given the set of the tracks' extensions
FileTypeOf(file_types) ==
    IF Cardinality(file_types) = 1
    THEN VariantNamed(CHOOSE e \in file_types : TRUE)
    ELSE None

\* Album::file_type
file_type(a) == FileTypeOf(TrackExtensions(a))

\* Album::title_without_filetype, given the file type
TitleWithout(title, ft) ==
    IF IsSome(ft)
    THEN Trim(ReplaceAll(title, <<Bracket(get_name(Unwrap(ft)))>>, <<>>))
    ELSE title

\* Album::title_without_filetype
title_without_filetype(a) == TitleWithout(a.title, file_type(a))

\* Album::album_dir_with_ft
album_dir_with_ft(a, root_dir, ft) ==
    LET title == IF IsSome(ft)
                 THEN a.parsed_title \o <<" ", Bracket(get_name(Unwrap(ft)))>>
                 ELSE a.parsed_title
    IN  PathJoin(PathJoin(root_dir, a.parsed_artist), title)

merge_with_AnyDir(self, other) ==
    IF self.title = other.title /\ self.artist = other.artist
    THEN Some(NewAlbum(self.title, self.artist,
                       SortStrs(Range(self.tracks) \cup Range(other.tracks)),
                       self.dir_path,
                       self.cover_files \cup other.cover_files,
                       self.parsed_title, self.parsed_artist))
    ELSE None

merge_with_Concat(self, other) ==
    IF /\ self.title = other.title
       /\ self.artist = other.artist
       /\ self.dir_path = other.dir_path
    THEN Some(NewAlbum(self.title, self.artist,
                       self.tracks \o other.tracks,
                       self.dir_path,
                       self.cover_files \cup other.cover_files,
                       self.parsed_title, self.parsed_artist))
    ELSE None

\* Album::merge_with
merge_with(self, other) ==
    IF /\ self.title = other.title
       /\ self.artist = other.artist
       /\ self.dir_path = other.dir_path
    THEN Some(NewAlbum(self.title, self.artist,
                       SortStrs(Range(self.tracks) \cup Range(other.tracks)),
                       self.dir_path,
                       self.cover_files \cup other.cover_files,
                       self.parsed_title, self.parsed_artist))
    ELSE None

\* the annotations path_to_details looks for, in the order it tries them
AnnotationCandidates ==
    LET names == [i \in 1..Len(value_variants) |-> get_name(value_variants[i])]
        per(ext) == <<ext, ToUppercase(ext)>> \o names
    IN  per(MUSIC_EXTENSIONS[1]) \o per(MUSIC_EXTENSIONS[2])
        \o per(MUSIC_EXTENSIONS[3]) \o per(MUSIC_EXTENSIONS[4])

\* the least index of a non-empty set of indices: Iterator::find
First(hits) == CHOOSE i \in hits : \A j \in hits : i <= j

StripTrimmed_Last(album, hits) ==
    IF hits = {} THEN album
    ELSE Trim(SubSeq(album, 1, Len(album) - 1))

\* path_to_details, the removal of the annotation from the trimmed album string
StripTrimmed(album, hits) ==
    IF hits = {} THEN album
    ELSE Trim(ReplaceAll(album, <<Bracket(AnnotationCandidates[First(hits)])>>, <<>>))

\* the candidates the album string ends with
AnnotationHits(album) ==
    {i \in 1..Len(AnnotationCandidates) :
        EndsWith(album, <<Bracket(AnnotationCandidates[i])>>)}

\* path_to_details, the removal of the trailing file-type annotation
StripAnnotation(album0) == StripTrimmed(Trim(album0), AnnotationHits(Trim(album0)))

\* path_to_details, two components, the first one without " - "
SplitSecond(artist, sp) ==
    IF IsSome(sp) THEN Some(<<artist, Unwrap(sp)[1], Unwrap(sp)[2]>>) ELSE None

\* path_to_details, two components
SplitTwo(parts, first) ==
    IF IsSome(first)
    THEN Some(<<Unwrap(first)[1], Unwrap(first)[2], parts[2]>>)
    ELSE SplitSecond(parts[1],
                     RSplitOnce(ReplaceAll(parts[2], parts[1] \o Dash, <<>>), Dash))

\* path_to_details, the split of the relative path into (artist, album, file)
SplitParts(parts) ==
    IF Len(parts) = 3 THEN Some(<<parts[1], parts[2], parts[3]>>)
    ELSE IF Len(parts) > 3
    THEN Some(<<parts[1], Join(SubSeq(parts, 2, Len(parts) - 1), Dash), parts[Len(parts)]>>)
    ELSE IF Len(parts) = 2
    THEN SplitTwo(parts, SplitOnce(parts[1], Dash))
    ELSE None

\* path_to_details, from the annotation on: the single-file album record
DetailsOf(path, artist, album, file) ==
    NewAlbum(album, artist,
             IF is_music(path) THEN <<file>> ELSE <<>>,
             Parent(path),
             IF is_image(path) THEN {path} ELSE {},
             album, artist)

\* path_to_details, given the split of the relative path
DetailsOfSplit(path, sp) ==
    IF ~IsSome(sp) THEN None
    ELSE Some(DetailsOf(path, Unwrap(sp)[1], StripAnnotation(Unwrap(sp)[2]), Unwrap(sp)[3]))

\* path_to_details
path_to_details(path, root_dir) ==
    DetailsOfSplit(path, SplitParts(SubSeq(path, Len(root_dir) + 1, Len(path))))


-----------------------------------------------------------------------------
(* The file system.  A file is [path, aa]: aa is the album artist of its   *)
(* embedded tags.  A world is [fs, dirs, ops, step, panic, cf, encFail]:    *)
(* the files, the directories, the operations performed so far in the      *)
(* pass, the step of sync_to_loc that performs them, whether the process   *)
(* has panicked, the directory order copy_items meets (cf) and the tracks  *)
(* the encoder fails on.                                                   *)

File(path, aa) == [path |-> path, aa |-> aa]

Paths(fs) == {f.path : f \in fs}

\* std::fs::write semantics: the file at f.path becomes f
PutFile(fs, f) == {g \in fs : g.path # f.path} \cup {f}

FileAt(fs, path) == CHOOSE f \in fs : f.path = path

\* the directories create_dir_all(dir) makes exist
Ancestors(dir) == {SubSeq(dir, 1, n) : n \in 1..Len(dir)}

Op(kind, a, b, ok, w) == [op |-> kind, a |-> a, b |-> b, ok |-> ok, step |-> w.step]

Log(w, o) == [w EXCEPT !.ops = Append(@, o)]

\* std::fs::create_dir_all, called when the directory does not exist
create_dir_all(w, dir) ==
    Log([w EXCEPT !.dirs = @ \cup Ancestors(dir)], Op("mkdir", dir, dir, TRUE, w))

\* std::fs::copy: fails when the source is no file or the target is a directory
fs_copy(w, kind, from, to) ==
    IF from \in Paths(w.fs) /\ to \notin w.dirs /\ Parent(to) \in w.dirs
    THEN Log([w EXCEPT !.fs = PutFile(@, File(to, FileAt(w.fs, from).aa))],
             Op(kind, from, to, TRUE, w))
    ELSE Log(w, Op(kind, from, to, FALSE, w))

\* std::fs::remove_dir_all
remove_dir_all(w, dir) ==
    [w EXCEPT !.fs = {f \in @ : ~IsPrefix(dir, f.path)},
              !.dirs = {d \in @ : ~IsPrefix(dir, d)}]

\* files_in_dir: every file below root (it panics when root is no directory)
files_in_dir(fs, root) == {f.path : f \in {g \in fs : IsPrefix(root, Parent(g.path))}}

\* Counter::most_common()[0] over the album artists of the tracks' tags
MostCommonArtist(a, fs) ==
    LET tagged == {t \in Range(a.tracks) :
                      /\ PathJoin(a.dir_path, t) \in Paths(fs)
                      /\ IsSome(FileAt(fs, PathJoin(a.dir_path, t)).aa)}
        artistOf(t) == Unwrap(FileAt(fs, PathJoin(a.dir_path, t)).aa)
        count(x) == Cardinality({t \in tagged : artistOf(t) = x})
        artists == {artistOf(t) : t \in tagged}
    IN  IF artists = {} THEN None
        ELSE Some(CHOOSE x \in artists : \A y \in artists : count(x) >= count(y))

FinalizeWith_ParsedArtist(a, mc) ==
    [a EXCEPT !.parsed_title = title_without_filetype(a),
              !.parsed_artist = IF IsSome(mc) THEN Unwrap(mc) ELSE @]

\* Album::finalize, given the most common album artist of the tags
FinalizeWith(a, mc) ==
    [a EXCEPT !.parsed_title = title_without_filetype(a),
              !.artist = IF IsSome(mc) THEN Unwrap(mc) ELSE @]

\* Album::finalize
finalize(a, fs) == FinalizeWith(a, MostCommonArtist(a, fs))

GroupMerged_Drop(lookup, a, merged) ==
    IF IsSome(merged) THEN (lookup \ {a}) \cup {Unwrap(merged)} ELSE lookup \ {a}

\* group_files_into_albums: the merged record replaces the directory's record
GroupMerged(lookup, a, merged) ==
    IF IsSome(merged) THEN (lookup \ {a}) \cup {Unwrap(merged)} ELSE lookup

\* group_files_into_albums: one file's record goes into the lookup
GroupInsert(lookup, album_dir, album) ==
    IF ~IsSome(album) THEN lookup
    ELSE IF \E a \in lookup : a.dir_path = album_dir
    THEN GroupMerged(lookup, CHOOSE a \in lookup : a.dir_path = album_dir,
                     merge_with(Unwrap(album), CHOOSE a \in lookup : a.dir_path = album_dir))
    ELSE lookup \cup {Unwrap(album)}

\* group_files_into_albums, the loop: lookup is the set of albums, one per directory
RECURSIVE GroupFold(_, _, _)
GroupFold(file_paths, root, lookup) ==
    IF Len(file_paths) = 0 THEN lookup
    ELSE GroupFold(Tail(file_paths), root,
                   GroupInsert(lookup, Parent(Head(file_paths)),
                               path_to_details(Head(file_paths), root)))

\* group_files_into_albums
group_files_into_albums(file_paths, root, fs) ==
    {finalize(a, fs) : a \in GroupFold(file_paths, root, {})}

\* albums_in_dir
albums_in_dir(fs, root) ==
    group_files_into_albums(SetToSeq(files_in_dir(fs, root)), root, fs)

Insert_KeepFirst(lookup, k, v) ==
    [x \in DOMAIN lookup \cup {k} |-> IF x \in DOMAIN lookup THEN lookup[x] ELSE v]

\* HashMap::insert on the lookup, a function on the (key, type) pairs it holds
Insert(lookup, k, v) ==
    [x \in DOMAIN lookup \cup {k} |-> IF x = k THEN v ELSE lookup[x]]

EmptyLookup == [x \in {} |-> {}]

\* create_source_album_lookup: one album goes into the lookup when it has a type
InsertAlbum(lookup, a, ft, sd) ==
    IF IsSome(ft)
    THEN Insert(lookup, <<Key(a), Unwrap(ft)>>, [album |-> a, src |-> sd])
    ELSE lookup

RECURSIVE InsertAlbums(_, _, _)
InsertAlbums(lookup, albums, sd) ==
    IF Len(albums) = 0 THEN lookup
    ELSE InsertAlbums(InsertAlbum(lookup, Head(albums), file_type(Head(albums)), sd),
                      Tail(albums), sd)

RECURSIVE LookupFold(_, _, _)
LookupFold(source_dirs, fs, lookup) ==
    IF Len(source_dirs) = 0 THEN lookup
    ELSE LookupFold(Tail(source_dirs), fs,
                    InsertAlbums(lookup, SetToSeq(albums_in_dir(fs, Head(source_dirs))),
                                 Head(source_dirs)))

\* create_source_album_lookup
create_source_album_lookup(source_dirs, fs) == LookupFold(source_dirs, fs, EmptyLookup)

\* HashMap::values, the albums of the lookup
Values(lookup) == {lookup[k].album : k \in DOMAIN lookup}


-----------------------------------------------------------------------------
(* Locations *)

\* the device's music directory, AdbLocation's root
AdbRoot == << <<"/storage/emulated/0/Music">> >>

DirLocation(dir) == [kind |-> "dir", dir |-> dir]

AdbLocation == [kind |-> "adb", dir |-> AdbRoot]

\* Location::albums
albums_of(loc, fs) == albums_in_dir(fs, loc.dir)

\* fs_extra::copy_items of one directory with the default CopyOptions: the target
\* directory is created, then the files are copied one by one and the first one
\* that exists at the target ends the copy with an error.  The order of the files
\* is the directory's: w.cf tells whether the existing file comes first or last.
copy_items(w, from, to_parent) ==
    IF from \notin w.dirs
    THEN [w |-> w, ok |-> FALSE]
    ELSE LET to == PathJoin(to_parent, FileName(from))
             files == {f \in w.fs : IsPrefix(from, Parent(f.path))}
             target(f) == to \o SubSeq(f.path, Len(from) + 1, Len(f.path))
             conflicts == {f \in files : target(f) \in Paths(w.fs)}
             copied == IF conflicts = {} THEN files
                       ELSE IF w.cf THEN {} ELSE files \ conflicts
             newdirs == {Parent(target(f)) : f \in files} \cup {to}
         IN  [w |-> [w EXCEPT !.fs = {g \in @ : g.path \notin {target(f) : f \in copied}}
                                      \cup {File(target(f), f.aa) : f \in copied},
                              !.dirs = @ \cup newdirs],
              ok |-> conflicts = {}]

\* DirLocation::copy_full_album
DirCopyFullAlbum(w, loc, src_album) ==
    LET dst_path == PathJoin(loc.dir, src_album.parsed_artist)
        w1 == IF dst_path \notin w.dirs THEN create_dir_all(w, dst_path) ELSE w
        r == copy_items(w1, src_album.dir_path, dst_path)
    IN  [w |-> Log(r.w, Op("copy_full_album", src_album.dir_path,
                           PathJoin(dst_path, FileName(src_album.dir_path)), r.ok, w)),
         ok |-> r.ok]

\* dir_exists_on_adb_device: the device's pathExistsAsDirectory
dir_exists_on_adb_device(w, dir) == dir \in w.dirs

\* the shell command mkdir on the device
adb_mkdir(w, dir) ==
    IF Parent(dir) \in w.dirs
    THEN Log([w EXCEPT !.dirs = @ \cup {dir}], Op("mkdir", dir, dir, TRUE, w))
    ELSE Log(w, Op("mkdir", dir, dir, FALSE, w))

\* File::open followed by ADBServerDevice::push; must: the open is an expect()
adb_push(w, kind, from, to, must) ==
    IF from \notin Paths(w.fs)
    THEN IF must THEN [w EXCEPT !.panic = TRUE] ELSE Log(w, Op(kind, from, to, FALSE, w))
    ELSE Log([w EXCEPT !.fs = PutFile(@, File(to, FileAt(w.fs, from).aa)),
                       !.dirs = @ \cup Ancestors(Parent(to))],
             Op(kind, from, to, TRUE, w))

RECURSIVE PushAll(_, _)
PushAll(w, items) ==
    IF Len(items) = 0 \/ w.panic THEN w
    ELSE LET i == Head(items)
         IN  PushAll(adb_push(w, i.kind, i.from, i.to, i.must), Tail(items))

\* the device name of a cover file: ".jpeg" becomes ".jpg"
AdbCoverName(cf) == ReplaceAll(FileName(cf), <<".", "jpeg">>, <<".", "jpg">>)

\* AdbLocation::copy_full_album
AdbCopyFullAlbum(w, loc, src_album) ==
    LET adb_artist_dir == PathJoin(loc.dir, src_album.parsed_artist)
        w1 == IF ~dir_exists_on_adb_device(w, adb_artist_dir)
              THEN adb_mkdir(w, adb_artist_dir) ELSE w
        adb_album_dir == album_dir_with_ft(src_album, loc.dir, None)
        w2 == IF ~dir_exists_on_adb_device(w1, adb_album_dir)
              THEN adb_mkdir(w1, adb_album_dir) ELSE w1
        covers == SetToSeq(src_album.cover_files)
        w3 == PushAll(w2, [i \in 1..Len(covers) |->
                    [kind |-> "copy_cover", from |-> covers[i],
                     to |-> PathJoin(adb_album_dir, AdbCoverName(covers[i])), must |-> TRUE]])
        w4 == PushAll(w3, [i \in 1..Len(src_album.tracks) |->
                    [kind |-> "copy_track",
                     from |-> PathJoin(src_album.dir_path, src_album.tracks[i]),
                     to |-> PathJoin(adb_album_dir, src_album.tracks[i]), must |-> FALSE]])
    IN  [w |-> Log(w4, Op("copy_full_album", src_album.dir_path, adb_album_dir, TRUE, w)),
         ok |-> TRUE]

\* Location::copy_full_album
copy_full_album(w, loc, src_album) ==
    IF loc.kind = "dir" THEN DirCopyFullAlbum(w, loc, src_album)
    ELSE AdbCopyFullAlbum(w, loc, src_album)

\* DirLocation::del_album
DirDelAlbum(w, album) ==
    Log(remove_dir_all(w, album.dir_path),
        Op("del_album", album.dir_path, album.dir_path, album.dir_path \in w.dirs, w))

\* del_album_on_device: the device's removeDirectoryRecursive
del_album_on_device(w, album) ==
    Log(remove_dir_all(w, album.dir_path),
        Op("del_album", album.dir_path, album.dir_path, album.dir_path \in w.dirs, w))

\* AdbLocation::del_album
AdbDelAlbum(w, album) == del_album_on_device(w, album)

\* Location::del_album
del_album(w, loc, album) ==
    IF loc.kind = "dir" THEN DirDelAlbum(w, album) ELSE AdbDelAlbum(w, album)

TrackIsMissing_Mut(dst_album, src_track) == TRUE

\* copy_missing_files: the track is not among the destination album's tracks
TrackIsMissing(dst_album, src_track) ==
    ~\E i \in 1..Len(dst_album.tracks) : dst_album.tracks[i] = src_track

\* copy_missing_files: the test the code makes before it copies a cover file
CoverIsMissing(src_album, dst_album, src_cover) ==
    ~\E c \in src_album.cover_files : c = src_cover

\* PathBuf::join with an absolute path, which replaces the base
JoinAbsolute(dir, abs) == abs

\* DirLocation::copy_missing_files, the loop over the source tracks
RECURSIVE DirCopyMissingTracks(_, _, _, _)
DirCopyMissingTracks(w, src_album, dst_album, i) ==
    IF i > Len(src_album.tracks) THEN w
    ELSE LET src_track == src_album.tracks[i]
             dest == PathJoin(dst_album.dir_path, src_track)
             from == PathJoin(src_album.dir_path, src_track)
             w1 == IF TrackIsMissing(dst_album, src_track) /\ from # dest
                   THEN fs_copy(w, "copy_track", from, dest)
                   ELSE w
         IN  DirCopyMissingTracks(w1, src_album, dst_album, i + 1)

\* DirLocation::copy_missing_files, the loop over the source cover files
RECURSIVE DirCopyMissingCovers(_, _, _, _)
DirCopyMissingCovers(w, src_album, dst_album, covers) ==
    IF Len(covers) = 0 THEN w
    ELSE LET src_cover == Head(covers)
             w1 == IF CoverIsMissing(src_album, dst_album, src_cover)
                   THEN fs_copy(w, "copy_cover", JoinAbsolute(src_album.dir_path, src_cover),
                                dst_album.dir_path)
                   ELSE w
         IN  DirCopyMissingCovers(w1, src_album, dst_album, Tail(covers))

\* the transfers of a kind issued after the first n operations of the log
Issued(w, n, kind) ==
    {w.ops[i] : i \in {j \in (n + 1)..Len(w.ops) : w.ops[j].op = kind}}

\* the record of one copy_missing_files call: the albums and the names transferred
MissingFilesCall(w0, w1, src_album, dst_album, exists) ==
    Log(w1, Op("copy_missing_files",
               [src |-> src_album, dst |-> dst_album, exists |-> exists],
               [tracks |-> {FileName(o.b) : o \in Issued(w1, Len(w0.ops), "copy_track")},
                covers |-> {FileName(o.a) : o \in Issued(w1, Len(w0.ops), "copy_cover")}],
               TRUE, w0))

\* DirLocation::copy_missing_files
DirCopyMissingFiles(w, loc, src_album, dst_album) ==
    IF dst_album.dir_path \in w.dirs
    THEN LET w1 == DirCopyMissingTracks(w, src_album, dst_album, 1)
             w2 == DirCopyMissingCovers(w1, src_album, dst_album,
                                        SetToSeq(src_album.cover_files))
         IN  MissingFilesCall(w, w2, src_album, dst_album, TRUE)
    ELSE MissingFilesCall(w, DirCopyFullAlbum(w, loc, src_album).w,
                          src_album, dst_album, FALSE)

\* AdbLocation::copy_missing_files
AdbCopyMissingFiles(w, loc, src_album, dst_album) ==
    LET dst_dir == dst_album.dir_path
    IN  IF dir_exists_on_adb_device(w, dst_dir)
        THEN LET missing == SelectSeq(src_album.tracks,
                                      LAMBDA t : TrackIsMissing(dst_album, t))
                 w1 == PushAll(w, [i \in 1..Len(missing) |->
                            [kind |-> "copy_track",
                             from |-> PathJoin(src_album.dir_path, missing[i]),
                             to |-> PathJoin(dst_dir, FileName(PathJoin(src_album.dir_path,
                                                                        missing[i]))),
                             must |-> TRUE]])
                 covers == SelectSeq(SetToSeq(src_album.cover_files),
                                     LAMBDA c : CoverIsMissing(src_album, dst_album, c))
                 w2 == PushAll(w1, [i \in 1..Len(covers) |->
                            [kind |-> "copy_cover",
                             from |-> JoinAbsolute(src_album.dir_path, covers[i]),
                             to |-> PathJoin(dst_dir, AdbCoverName(covers[i])),
                             must |-> TRUE]])
             IN  MissingFilesCall(w, w2, src_album, dst_album, TRUE)
        ELSE MissingFilesCall(w, AdbCopyFullAlbum(w, loc, src_album).w,
                              src_album, dst_album, FALSE)

\* Location::copy_missing_files
copy_missing_files(w, loc, src_album, dst_album) ==
    IF loc.kind = "dir" THEN DirCopyMissingFiles(w, loc, src_album, dst_album)
    ELSE AdbCopyMissingFiles(w, loc, src_album, dst_album)

-----------------------------------------------------------------------------
(* The format converter *)

ConversionProhibited_Mut(src_ft, dest_ft) == FALSE

\* convert_src_album: the lossy to lossless rejection
ConversionProhibited(src_ft, dest_ft) == is_lossless(dest_ft) /\ ~is_lossless(src_ft)

\* convert_src_album, get_output_args: the targets that have encoder arguments
HasOutputArgs(dest_ft) == dest_ft \in {"MP3", "Flac"}

\* one run of the encoder: it writes the output when it has an output argument,
\* can read its input, does not have to overwrite and does not fail on the track
Encode(w, t, dest_ft, full_path, dst_path) ==
    LET ok == /\ HasOutputArgs(dest_ft)
              /\ full_path \in Paths(w.fs)
              /\ dst_path \notin Paths(w.fs)
              /\ t \notin w.encFail
    IN  Log(IF ok THEN [w EXCEPT !.fs = PutFile(@, File(dst_path, FileAt(w.fs, full_path).aa))]
                  ELSE w,
            Op("encode", full_path, dst_path, ok, w))

\* convert_src_album: the name of the converted track
ConvertedTrackName(t, src_ft, dest_ft) ==
    ReplaceAll(t, <<".", get_name(src_ft)>>, <<".", get_name(dest_ft)>>)

RECURSIVE ConvertCovers(_, _, _)
ConvertCovers(w, covers, new_src_album_dir) ==
    IF Len(covers) = 0 THEN w
    ELSE ConvertCovers(fs_copy(w, "copy_cover", Head(covers),
                               PathJoin(new_src_album_dir, FileName(Head(covers)))),
                       Tail(covers), new_src_album_dir)

RECURSIVE ConvertTracks(_, _, _, _, _, _)
ConvertTracks(w, src_album, src_ft, dest_ft, new_src_album_dir, i) ==
    IF i > Len(src_album.tracks) THEN w
    ELSE LET t == src_album.tracks[i]
         IN  ConvertTracks(Encode(w, t, dest_ft, PathJoin(src_album.dir_path, t),
                                  PathJoin(new_src_album_dir,
                                           ConvertedTrackName(t, src_ft, dest_ft))),
                           src_album, src_ft, dest_ft, new_src_album_dir, i + 1)

\* convert_src_album: the result is [w, res], res the converted album or None
convert_src_album(w, src, src_album, dest_ft) ==
    LET sft == file_type(src_album)
    IN  IF ~IsSome(sft) THEN [w |-> w, res |-> None]
        ELSE IF ConversionProhibited(Unwrap(sft), dest_ft)
        THEN [w |-> Log(w, Op("convert", [key |-> Key(src_album), src_ft |-> Unwrap(sft),
                                           dest_ft |-> dest_ft, n |-> Len(w.ops)],
                                None, FALSE, w)),
              res |-> None]
        ELSE LET src_ft == Unwrap(sft)
                 new_src_album_dir == album_dir_with_ft(src_album, src, Some(dest_ft))
                 w1 == IF new_src_album_dir \notin w.dirs
                       THEN create_dir_all(w, new_src_album_dir) ELSE w
                 w2 == ConvertCovers(w1, SetToSeq(src_album.cover_files), new_src_album_dir)
                 w3 == ConvertTracks(w2, src_album, src_ft, dest_ft, new_src_album_dir, 1)
                 new_tracks == [i \in 1..Len(src_album.tracks) |->
                                   ConvertedTrackName(src_album.tracks[i], src_ft, dest_ft)]
                 ok == Len(new_tracks) = Len(src_album.tracks)
                 album == NewAlbum(src_album.title, src_album.artist, new_tracks,
                                   new_src_album_dir, src_album.cover_files,
                                   src_album.parsed_title, src_album.parsed_artist)
             IN  [w |-> Log(w3, Op("convert", [key |-> Key(src_album), src_ft |-> src_ft,
                                                dest_ft |-> dest_ft, n |-> Len(w.ops)],
                                   IF ok THEN Some(album) ELSE None, ok, w)),
                  res |-> IF ok THEN Some(album) ELSE None]

-----------------------------------------------------------------------------
(* The reconciliation engine *)

\* get_ft_src_album: the order in which source types are tried for conversion
src_ft_order == <<"Flac", "Wav", "MP3", "M4A">>

\* the types under which the lookup holds the key
TypesOf(lookup, key) == {ft \in FileType : <<key, ft>> \in DOMAIN lookup}

RECURSIVE TryConvert(_, _, _, _, _)

\* get_ft_src_album, the loop: what follows a conversion
RECURSIVE TryConverted(_, _, _, _, _, _)
TryConverted(r, ft, album, dest_ft, album_lookup, i) ==
    IF IsSome(r.res)
    THEN [w |-> r.w, res |-> r.res, from |-> Some(ft)]
    ELSE TryConvert(r.w, album, dest_ft, album_lookup, i + 1)

\* get_ft_src_album, the loop over src_ft_order
TryConvert(w, album, dest_ft, album_lookup, i) ==
    IF i > Len(src_ft_order) THEN [w |-> w, res |-> None, from |-> None]
    ELSE IF <<Key(album), src_ft_order[i]>> \in DOMAIN album_lookup
    THEN TryConverted(convert_src_album(w, album_lookup[<<Key(album), src_ft_order[i]>>].src,
                                        album_lookup[<<Key(album), src_ft_order[i]>>].album,
                                        dest_ft),
                      src_ft_order[i], album, dest_ft, album_lookup, i)
    ELSE TryConvert(w, album, dest_ft, album_lookup, i + 1)

ExactMatch_Mut(album, dest_ft, album_lookup) == FALSE

\* get_ft_src_album: the index holds the album in the desired type
ExactMatch(album, dest_ft, album_lookup) == <<Key(album), dest_ft>> \in DOMAIN album_lookup

\* get_ft_src_album: the result of the loop
Converted(c) ==
    [w |-> c.w, res |-> c.res, from |-> c.from,
     how |-> IF IsSome(c.res) THEN "converted" ELSE "none"]

\* the record of one get_ft_src_album call: what was asked, what the lookup held
\* for the key, and what came back
GetFtCall(w, r, album, dest_ft, album_lookup) ==
    [w |-> Log(r.w, Op("get_ft_src_album",
                       [key |-> Key(album), dest_ft |-> dest_ft,
                        types |-> TypesOf(album_lookup, Key(album)), n |-> Len(w.ops)],
                       [how |-> r.how, from |-> r.from, res |-> r.res], IsSome(r.res), w)),
     res |-> r.res]

\* get_ft_src_album: the result is [w, res], res the source album or None
get_ft_src_album(w, album, dest_ft, album_lookup) ==
    GetFtCall(w,
              IF ExactMatch(album, dest_ft, album_lookup)
              THEN [w |-> w, res |-> Some(album_lookup[<<Key(album), dest_ft>>].album),
                    from |-> Some(dest_ft), how |-> "exact"]
              ELSE Converted(TryConvert(w, album, dest_ft, album_lookup, 1)),
              album, dest_ft, album_lookup)

\* ensure_album_is_in_location: the result of the copy
EnsureCopied(c, ft) == [w |-> c.w, res |-> IF c.ok THEN ft ELSE None]

AllowAnyCopy_Always(src_album, allow_any) == IsSome(file_type(src_album))

\* ensure_album_is_in_location: the source album itself may be copied
AllowAnyCopy(src_album, allow_any) == IsSome(file_type(src_album)) /\ allow_any

\* ensure_album_is_in_location, after get_ft_src_album
EnsureWith(g, src_album, dest_ft, location, allow_any) ==
    IF IsSome(g.res)
    THEN EnsureCopied(copy_full_album(g.w, location, Unwrap(g.res)), Some(dest_ft))
    ELSE IF AllowAnyCopy(src_album, allow_any)
    THEN EnsureCopied(copy_full_album(g.w, location, src_album), file_type(src_album))
    ELSE [w |-> g.w, res |-> None]

\* ensure_album_is_in_location: the result is [w, res], res the type now at the
\* location or None for an error
ensure_album_is_in_location(w, src_album, dest_ft, album_lookup, location, allow_any) ==
    EnsureWith(get_ft_src_album(w, src_album, dest_ft, album_lookup),
               src_album, dest_ft, location, allow_any)

\* sync_to_loc: some album of the listing has a's key in the desired type
DestHasType(albums, a, ft) ==
    \E a2 \in albums : Key(a2) = Key(a) /\ file_type(a2) = Some(ft)

\* sync_to_loc, the copy_full_album closure, after ensure_album_is_in_location
ClosureResult(e, album, albums_in_loc) ==
    [w |-> e.w,
     inloc |-> IF IsSome(e.res)
               THEN albums_in_loc \cup {<<Key(album), Unwrap(e.res)>>}
               ELSE albums_in_loc]

\* sync_to_loc, the copy_full_album closure: the result is [w, inloc]
CopyFullAlbumClosure(w, album, ft, album_lookup, location, allow_any, albums_in_loc) ==
    ClosureResult(ensure_album_is_in_location(w, album, ft, album_lookup, location, allow_any),
                  album, albums_in_loc)

ShouldReplace_Alone(albums, a, aft, ft) == aft # ft

\* sync_to_loc: the album has the wrong type and none of its key has the right one
ShouldReplace(albums, a, aft, ft) == aft # ft /\ ~DestHasType(albums, a, ft)

\* sync_to_loc, the body of the loop over the albums of the location, after
\* get_ft_src_album
Step2With(g, a, aft, ft, album_lookup, location, allow_any, albums, albums_in_loc) ==
    IF IsSome(g.res)
    THEN IF aft # ft
         THEN IF ShouldReplace(albums, a, aft, ft)
              THEN CopyFullAlbumClosure(del_album(g.w, location, a),
                                        Unwrap(g.res), ft, album_lookup,
                                        location, allow_any, albums_in_loc)
              ELSE [w |-> g.w, inloc |-> albums_in_loc]
         ELSE [w |-> copy_missing_files(g.w, location, Unwrap(g.res), a),
               inloc |-> albums_in_loc \cup {<<Key(a), aft>>}]
    ELSE [w |-> g.w, inloc |-> albums_in_loc \cup {<<Key(a), aft>>}]

\* sync_to_loc, the body of the loop over the albums of the location
Step2Body(w, a, ft, album_lookup, location, allow_any, albums, albums_in_loc) ==
    IF ~IsSome(file_type(a)) THEN [w |-> w, inloc |-> albums_in_loc]
    ELSE Step2With(get_ft_src_album(w, a, ft, album_lookup), a, Unwrap(file_type(a)), ft,
                   album_lookup, location, allow_any, albums, albums_in_loc)

\* sync_to_loc: the key is in albums_in_loc
InLocation(albums_in_loc, album) == \E e \in albums_in_loc : e[1] = Key(album)

\* sync_to_loc, the body of the loop over the values of the rebuilt lookup
Step3Body(w, album, ft, album_lookup, location, allow_any, albums_in_loc) ==
    IF ~InLocation(albums_in_loc, album)
    THEN CopyFullAlbumClosure(w, album, ft, album_lookup, location, allow_any, albums_in_loc)
    ELSE [w |-> w, inloc |-> albums_in_loc]

-----------------------------------------------------------------------------
(* The Sync command *)

PathDest(p) == [kind |-> "PathDest", path |-> p]

ADBDest == [kind |-> "ADBDest", path |-> AdbRoot]

SortKey_Mut(d, source_directories) == IF d[1].kind = "PathDest" THEN 0 ELSE 1

\* Commands::Sync: the key the destinations are sorted by
SortKey(d, source_directories) ==
    IF d[1].kind = "PathDest" /\ d[1].path \in Range(source_directories) THEN 0 ELSE 1

\* Commands::Sync: sort_by_key is a stable sort
SortedDestinations(cfg) ==
    SelectSeq(cfg.destinations, LAMBDA d : SortKey(d, cfg.source_directories) = 0)
    \o SelectSeq(cfg.destinations, LAMBDA d : SortKey(d, cfg.source_directories) = 1)

\* the Location of a destination
LocationOf(d) == IF d[1].kind = "PathDest" THEN DirLocation(d[1].path) ELSE AdbLocation

-----------------------------------------------------------------------------
(* The initial file systems and configurations *)

SrcRoot == << <<"/src">> >>

DstRoot == << <<"/dst">> >>

Poppy == <<"Poppy">>

Track(n, ext) == <<n, ".", ext>>

Cover == <<"cover", ".", "jpg">>

\* album directories: the path below the root and the files in it
ChokeFlac == [rel |-> <<Poppy, <<"Poppy", " ", "-", " ", "Choke", " ", "[FLAC]">> >>,
              files |-> {Track("01 Track", "flac"), Cover}]

ChokeMp3 == [rel |-> <<Poppy, <<"Poppy", " ", "-", " ", "Choke", " ", "[mp3]">> >>,
             files |-> {Track("01 Track", "mp3"), Cover}]

ChokeM4a == [rel |-> <<Poppy, <<"Poppy", " ", "-", " ", "Choke", " ", "[m4a]">> >>,
             files |-> {Track("01 Track", "m4a")}]

FluxMp3 == [rel |-> <<Poppy, <<"Flux", " ", "[mp3]">> >>,
            files |-> {Track("01 Track", "mp3"), Track("02 Track", "mp3"), Cover}]

FluxMp3Part == [rel |-> <<Poppy, <<"Flux", " ", "[mp3]">> >>,
                files |-> {Track("01 Track", "mp3")}]

FluxWav == [rel |-> <<Poppy, <<"Flux", " ", "[wav]">> >>,
            files |-> {Track("01 Track", "wav"), Track("02 Track", "wav")}]

FluxDevice == [rel |-> <<Poppy, <<"Flux">> >>, files |-> {Track("01 Track", "mp3")}]

\* an album directory right below the root, named "<artist> - <album> [<type>]"
ZigFlat == [rel |-> << <<"Poppy", " ", "-", " ", "Zig", " ", "[mp3]">> >>,
            files |-> {Track("01 Track", "mp3"), Track("02 Track", "mp3")}]

\* what a copy of ZigFlat leaves at a destination, less one track
ZigCopied == [rel |-> <<Poppy, <<"Poppy", " ", "-", " ", "Zig", " ", "[mp3]">> >>,
              files |-> {Track("01 Track", "mp3")}]

SrcCatalog == {ChokeFlac, ChokeMp3, ChokeM4a, FluxMp3, FluxWav, ZigFlat}

DstCatalog == {FluxMp3Part, ChokeMp3, ChokeFlac, FluxWav, ZigCopied}

\* sets of album directories with distinct paths, between lo and hi of them
Shelves(catalog, lo, hi) ==
    {S \in SUBSET catalog :
        /\ Cardinality(S) >= lo /\ Cardinality(S) <= hi
        /\ \A x, y \in S : x.rel = y.rel => x = y}

AlbumFiles(root, al) == {File(root \o al.rel \o <<name>>, None) : name \in al.files}

ShelfFiles(root, S) == UNION {AlbumFiles(root, al) : al \in S}

DirsOf(files) == UNION {Ancestors(Parent(f.path)) : f \in files}

Destinations(order, ft, allow_any) ==
    CASE order = "dir" -> << <<PathDest(DstRoot), ft, allow_any>> >>
      [] order = "adb_dir" -> << <<ADBDest, ft, allow_any>>, <<PathDest(DstRoot), ft, allow_any>> >>
      [] order = "dir_adb" -> << <<PathDest(DstRoot), ft, allow_any>>, <<ADBDest, ft, allow_any>> >>

-----------------------------------------------------------------------------
(* The state machine *)

VARIABLES
    fs,       \* the files of the local disks and of the device
    dirs,     \* the directories
    env,      \* encFail: the tracks the encoder fails on; devices: reachable devices;
              \* start: the files before the first run
    config,   \* DirConfig: source_directories and destinations
    run,      \* the number of the Sync run
    pc,       \* where the run is
    dests,    \* Commands::Sync: the sorted destinations
    di,       \* the index of the destination being synced
    pass,     \* sync_to_loc's locals; start: the files when the pass began
    ops,      \* the operations of the current pass
    synced    \* the destinations sync_to_loc was called for, in order, in this run

vars == <<fs, dirs, env, config, run, pc, dests, di, pass, ops, synced>>

NoPass == [album_lookup |-> EmptyLookup, albums |-> {}, todo2 |-> {},
           albums_in_loc |-> {}, todo3 |-> {}, start |-> {}]

InitWith(srcShelf, dstShelf, devShelf, dstExists, sources, order, ft, allow_any, encFail, devices) ==
    LET files == ShelfFiles(SrcRoot, srcShelf) \cup ShelfFiles(DstRoot, dstShelf)
                 \cup ShelfFiles(AdbRoot, devShelf)
    IN  /\ fs = files
        /\ dirs = DirsOf(files) \cup {SrcRoot, AdbRoot}
                  \cup (IF dstExists THEN {DstRoot} ELSE {})
        /\ env = [encFail |-> encFail, devices |-> devices, start |-> files]
        /\ config = [source_directories |-> sources,
                     destinations |-> Destinations(order, ft, allow_any)]
        /\ run = 1
        /\ pc = "idle"
        /\ dests = <<>>
        /\ di = 0
        /\ pass = NoPass
        /\ ops = <<>>
        /\ synced = <<>>

\* one source root, one directory destination
InitDir ==
    \E srcShelf \in Shelves(SrcCatalog, 1, MaxSrcAlbums),
       dstShelf \in Shelves(DstCatalog, 0, MaxDstAlbums),
       ft \in FileType, allow_any \in BOOLEAN,
       encFail \in {{}, {Track("01 Track", "flac")}} :
        \E dstExists \in (IF dstShelf = {} THEN BOOLEAN ELSE {TRUE}) :
            InitWith(srcShelf, dstShelf, {}, dstExists, <<SrcRoot>>, "dir", ft, allow_any,
                     encFail, 1)

\* the directory destination is a source root too
InitSourceDest ==
    \E srcShelf \in Shelves(SrcCatalog, 1, MaxSrcAlbums),
       dstShelf \in Shelves(DstCatalog, 0, MaxDstAlbums),
       ft \in FileType, allow_any \in BOOLEAN :
        InitWith(srcShelf, dstShelf, {}, TRUE, <<SrcRoot, DstRoot>>, "dir", ft, allow_any, {}, 1)

\* a device among the destinations
InitDevice ==
    \E srcShelf \in Shelves(SrcCatalog, 1, 1),
       devShelf \in Shelves({FluxDevice}, 0, 1),
       sources \in {<<SrcRoot>>, <<SrcRoot, DstRoot>>},
       order \in {"adb_dir", "dir_adb"},
       ft \in FileType, allow_any \in BOOLEAN,
       devices \in {0, 1, 2}, dstExists \in BOOLEAN :
        InitWith(srcShelf, {}, devShelf, dstExists, sources, order, ft, allow_any, {}, devices)

\* the directory destination holds one album in two types
InitSiblings ==
    \E srcShelf \in Shelves(SrcCatalog, 1, 1),
       sources \in {<<SrcRoot>>, <<SrcRoot, DstRoot>>},
       ft \in FileType, allow_any \in BOOLEAN :
        InitWith(srcShelf, {ChokeMp3, ChokeFlac}, {}, TRUE, sources, "dir", ft, allow_any, {}, 1)

Init == InitDir \/ InitSourceDest \/ InitDevice \/ InitSiblings

World(step, cf) ==
    [fs |-> fs, dirs |-> dirs, ops |-> ops, step |-> step, panic |-> FALSE, cf |-> cf,
     encFail |-> env.encFail]

\* Commands::Sync: read the configuration and sort the destinations
SyncStart ==
    /\ pc = "idle"
    /\ dests' = SortedDestinations(config)
    /\ di' = 1
    /\ pc' = "dest"
    /\ synced' = <<>>
    /\ UNCHANGED <<fs, dirs, env, config, run, pass, ops>>

\* AdbLocation::new
DeviceReachable == env.devices = 1

\* files_in_dir panics when a root it has to read is no directory
ListingWorks(location) ==
    /\ \A i \in 1..Len(config.source_directories) : config.source_directories[i] \in dirs
    /\ location.kind = "dir" => location.dir \in dirs

\* Commands::Sync: a device destination without exactly one reachable device is skipped
SkipDest ==
    /\ pc = "dest" /\ di <= Len(dests)
    /\ dests[di][1].kind = "ADBDest" /\ ~DeviceReachable
    /\ di' = di + 1
    /\ UNCHANGED <<fs, dirs, env, config, run, pc, dests, pass, ops, synced>>

\* sync_to_loc's locals before the first loop
NewPass(album_lookup, albums, files) ==
    [album_lookup |-> album_lookup, albums |-> albums, todo2 |-> albums,
     albums_in_loc |-> {}, todo3 |-> {}, start |-> files]

\* sync_to_loc, up to the loop: the lookup and the listing of the location
BeginPass ==
    /\ pc = "dest" /\ di <= Len(dests)
    /\ dests[di][1].kind = "ADBDest" => DeviceReachable
    /\ IF ListingWorks(LocationOf(dests[di]))
       THEN /\ pass' = NewPass(create_source_album_lookup(config.source_directories, fs),
                              albums_of(LocationOf(dests[di]), fs), fs)
            /\ pc' = "step2"
       ELSE /\ pass' = NoPass
            /\ pc' = "panicked"
    /\ ops' = <<>>
    /\ synced' = Append(synced, dests[di][1])
    /\ UNCHANGED <<fs, dirs, env, config, run, dests, di>>

\* the effect of a loop body on the disks, the log and albums_in_loc
Effect(r, here) ==
    /\ fs' = r.w.fs
    /\ dirs' = r.w.dirs
    /\ ops' = r.w.ops
    /\ pc' = IF r.w.panic THEN "panicked" ELSE here

\* sync_to_loc: one iteration of the loop over the albums of the location
Step2 ==
    /\ pc = "step2"
    /\ \E a \in pass.todo2, cf \in BOOLEAN :
        /\ Effect(Step2Body(World(2, cf), a, dests[di][2], pass.album_lookup,
                            LocationOf(dests[di]), dests[di][3],
                            pass.albums, pass.albums_in_loc), "step2")
        /\ pass' = [pass EXCEPT !.todo2 = @ \ {a},
                                !.albums_in_loc =
                                    Step2Body(World(2, cf), a, dests[di][2], pass.album_lookup,
                                              LocationOf(dests[di]), dests[di][3],
                                              pass.albums, pass.albums_in_loc).inloc]
    /\ UNCHANGED <<env, config, run, dests, di, synced>>

Step2LoopOver_Mut(p) == TRUE

\* sync_to_loc: albums.iter().for_each has visited every album of the location
Step2LoopOver(p) == p.todo2 = {}

\* sync_to_loc: the loop is over, the lookup is built again
Step2Done ==
    /\ pc = "step2" /\ Step2LoopOver(pass)
    /\ IF ListingWorks(LocationOf(dests[di]))
       THEN /\ pass' = [pass EXCEPT !.todo3 =
                            Values(create_source_album_lookup(config.source_directories, fs))]
            /\ pc' = "step3"
       ELSE /\ pass' = pass
            /\ pc' = "panicked"
    /\ UNCHANGED <<fs, dirs, env, config, run, dests, di, ops, synced>>

\* sync_to_loc: one iteration of the loop over the source albums
Step3 ==
    /\ pc = "step3"
    /\ \E album \in pass.todo3, cf \in BOOLEAN :
        /\ Effect(Step3Body(World(3, cf), album, dests[di][2], pass.album_lookup,
                            LocationOf(dests[di]), dests[di][3], pass.albums_in_loc), "step3")
        /\ pass' = [pass EXCEPT !.todo3 = @ \ {album},
                                !.albums_in_loc =
                                    Step3Body(World(3, cf), album, dests[di][2],
                                              pass.album_lookup, LocationOf(dests[di]),
                                              dests[di][3], pass.albums_in_loc).inloc]
    /\ UNCHANGED <<env, config, run, dests, di, synced>>

\* sync_to_loc returns
PassDone ==
    /\ pc = "step3" /\ pass.todo3 = {}
    /\ pc' = "dest"
    /\ di' = di + 1
    /\ UNCHANGED <<fs, dirs, env, config, run, dests, pass, ops, synced>>

\* Commands::Sync returns
SyncDone ==
    /\ pc = "dest" /\ di > Len(dests)
    /\ pc' = "done"
    /\ UNCHANGED <<fs, dirs, env, config, run, dests, di, pass, ops, synced>>

\* the command is run again on what the last run left
Rerun ==
    /\ pc = "done" /\ run < MaxRuns
    /\ run' = run + 1
    /\ pc' = "idle"
    /\ pass' = NoPass
    /\ ops' = <<>>
    /\ UNCHANGED <<fs, dirs, env, config, dests, di, synced>>

Next ==
    \/ SyncStart
    \/ SkipDest
    \/ BeginPass
    \/ Step2
    \/ Step2Done
    \/ Step3
    \/ PassDone
    \/ SyncDone
    \/ Rerun

Spec == Init /\ [][Next]_vars

-----------------------------------------------------------------------------
(* The catalogue functions on their own.  The second specification calls    *)
(* path_to_details, Album::merge_with, Album::file_type, Album::finalize    *)
(* and create_source_album_lookup on paths, albums and file systems drawn   *)
(* from the sets below: ops holds the last call, fs the files it read.      *)

\* number of merges that built the albums given to merge_with, file_type, finalize
MaxMerges == 2
\* number of album directories below each root given to create_source_album_lookup
MaxShelf == 2

\* names of album directories below the artist's directory
AlbumSegments ==
    {<<"Choke">>,
     <<"Choke", " ", "[FLAC]">>,
     <<"Choke", " ", "[flac]">>,
     <<"Choke", " ", "[Flac]">>,
     <<"Choke", " ">>,
     <<"Poppy", " ", "-", " ", "Choke", " ", "[MP3]">>,
     <<"[mp3]", " ", "Choke", " ", "[mp3]">>,
     <<"[mp3]", " ", "Choke", " ", "[FLAC]">>}

LibFiles ==
    {Track("01 Track", "flac"), Track("01 Track", "mp3"), Track("02 Track", "mp3"), Cover}

\* a track named "<artist> - <album> - <track>" in the artist's directory
FlatTrack == <<"Zig", " ", "-", " ", "Flux", " ", "-", " ", "01 Track", ".", "mp3">>

\* paths of one, two, three and four components below the root
LibPaths ==
    {SrcRoot \o <<Poppy, seg, f>> : seg \in AlbumSegments, f \in LibFiles}
    \cup {SrcRoot \o <<ZigFlat.rel[1], f>> : f \in LibFiles}
    \cup {SrcRoot \o << <<"Zig">>, f>> : f \in {FlatTrack, Track("01 Track", "mp3")}}
    \cup {SrcRoot \o <<Poppy, <<"Choke">>, <<"Flux">>, f>> : f \in LibFiles}
    \cup {SrcRoot \o <<Cover>>}

\* the albums path_to_details makes of single files
SingleAlbums ==
    {Unwrap(path_to_details(p, SrcRoot)) :
        p \in {q \in LibPaths : IsSome(path_to_details(q, SrcRoot))}}

\* the albums group_files_into_albums holds after at most n merges
RECURSIVE Grown(_)
Grown(n) ==
    IF n = 0 THEN SingleAlbums
    ELSE Grown(n - 1) \cup
         {Unwrap(merge_with(p[1], p[2])) :
             p \in {q \in SingleAlbums \X Grown(n - 1) : IsSome(merge_with(q[1], q[2]))}}

GrownAlbums == Grown(MaxMerges)

\* the album artist of a track's tags: none, or one of two artists
TagValues == {None, Some(Poppy), Some(<<"Zig">>)}

\* the files of an album, the tracks with the given tags
TaggedFiles(a, tags) ==
    {File(PathJoin(a.dir_path, t), tags[t]) : t \in Range(a.tracks)}
    \cup {File(c, None) : c \in a.cover_files}

\* a directory with tracks of two types
FluxMixed == [rel |-> <<Poppy, <<"Flux">> >>,
              files |-> {Track("01 Track", "mp3"), Track("02 Track", "wav")}]

\* a directory without tracks
ZigCover == [rel |-> <<Poppy, <<"Zig">> >>, files |-> {Cover}]

\* a second directory of the key and type of ChokeFlac
ChokeFlacLower == [rel |-> <<Poppy, <<"Poppy", " ", "-", " ", "Choke", " ", "[flac]">> >>,
                   files |-> {Track("01 Track", "flac"), Track("02 Track", "flac")}]

LibCatalog == {ChokeFlac, ChokeFlacLower, ChokeMp3, FluxMp3, FluxMixed, ZigCover}

SourceOrders == {<<SrcRoot>>, <<SrcRoot, DstRoot>>, <<DstRoot, SrcRoot>>}

LibInit ==
    /\ fs = {}
    /\ dirs = {}
    /\ env = [encFail |-> {}, devices |-> 0, start |-> {}]
    /\ config = [source_directories |-> <<SrcRoot>>, destinations |-> <<>>]
    /\ run = 0
    /\ pc = "lib"
    /\ dests = <<>>
    /\ di = 0
    /\ pass = NoPass
    /\ ops = <<>>
    /\ synced = <<>>

\* the record of a call: its name, its arguments and what it returned
LibCall(kind, a, b) == [op |-> kind, a |-> a, b |-> b]

\* a call read the files and returned
Applied(files, call) ==
    /\ fs' = files
    /\ dirs' = DirsOf(files)
    /\ ops' = <<call>>
    /\ UNCHANGED <<env, config, run, pc, dests, di, pass, synced>>

\* the functions keep no state between calls, so a behaviour is one call
CallPathToDetails ==
    /\ pc = "lib" /\ ops = <<>>
    /\ \E path \in LibPaths :
        Applied({File(path, None)},
                LibCall("path_to_details", [path |-> path, root_dir |-> SrcRoot],
                        path_to_details(path, SrcRoot)))

CallMergeWith ==
    /\ pc = "lib" /\ ops = <<>>
    /\ \E self \in SingleAlbums, other \in GrownAlbums :
        Applied({}, LibCall("merge_with", [self |-> self, other |-> other],
                            merge_with(self, other)))

CallFileType ==
    /\ pc = "lib" /\ ops = <<>>
    /\ \E a \in GrownAlbums : Applied({}, LibCall("file_type", a, file_type(a)))

CallFinalize ==
    /\ pc = "lib" /\ ops = <<>>
    /\ \E a \in GrownAlbums :
        \E tags \in [Range(a.tracks) -> TagValues] :
            Applied(TaggedFiles(a, tags),
                    LibCall("finalize", a, finalize(a, TaggedFiles(a, tags))))

CallCreateLookup ==
    /\ pc = "lib" /\ ops = <<>>
    /\ \E s1 \in Shelves(LibCatalog, 0, MaxShelf), s2 \in Shelves(LibCatalog, 0, MaxShelf),
          source_dirs \in SourceOrders :
        Applied(ShelfFiles(SrcRoot, s1) \cup ShelfFiles(DstRoot, s2),
                LibCall("create_source_album_lookup", source_dirs,
                        create_source_album_lookup(
                            source_dirs,
                            ShelfFiles(SrcRoot, s1) \cup ShelfFiles(DstRoot, s2))))

\* number of files given to group_files_into_albums
MaxGroup == 3

\* files of three directories: of an album directory below the artist's, of the
\* artist's directory (two albums, and a file without " - "), of the root
GroupPaths ==
    {SrcRoot \o <<Poppy, ChokeFlac.rel[2], f>> : f \in {Track("01 Track", "flac"), Cover}}
    \cup {SrcRoot \o << <<"Zig">>, f>> :
            f \in {FlatTrack, Track("01 Track", "mp3"),
                   <<"Zig", " ", "-", " ", "Flux", " ", "-", " ", "02 Track", ".", "mp3">>,
                   <<"Zig", " ", "-", " ", "Choke", " ", "-", " ", "01 Track", ".", "mp3">>}}
    \cup {SrcRoot \o <<Cover>>, SrcRoot \o <<Track("01 Track", "mp3")>>}

\* the lists of at most n different files
FileLists(n) ==
    {l \in UNION {[1..k -> GroupPaths] : k \in 0..n} :
        \A i, j \in 1..Len(l) : l[i] = l[j] => i = j}

CallGroupFiles ==
    /\ pc = "lib" /\ ops = <<>>
    /\ \E file_paths \in FileLists(MaxGroup) :
        Applied({File(file_paths[i], None) : i \in 1..Len(file_paths)},
                LibCall("group_files_into_albums",
                        [file_paths |-> file_paths, root |-> SrcRoot],
                        group_files_into_albums(
                            file_paths, SrcRoot,
                            {File(file_paths[i], None) : i \in 1..Len(file_paths)})))

\* the files copy_full_album leaves in the directory: the album's own tracks, or
\* the tracks convert_src_album names for the type
TracksAs(a, ft) ==
    {IF IsSome(ft) /\ IsSome(file_type(a))
     THEN ConvertedTrackName(a.tracks[i], Unwrap(file_type(a)), Unwrap(ft))
     ELSE a.tracks[i] : i \in 1..Len(a.tracks)}

\* the directory of an album of the catalogue for a type (convert_src_album) or
\* for none (the device), with the album's tracks in it
CallAlbumDirWithFt ==
    /\ pc = "lib" /\ ops = <<>>
    /\ \E g \in {x \in GrownAlbums : IsSome(file_type(x))},
          ft \in {None} \cup {Some(t) : t \in FileType} :
        Applied({File(PathJoin(album_dir_with_ft(finalize(g, {}), SrcRoot, ft), t), None) :
                    t \in TracksAs(g, ft)},
                LibCall("album_dir_with_ft",
                        [album |-> finalize(g, {}), root_dir |-> SrcRoot, ft |-> ft],
                        album_dir_with_ft(finalize(g, {}), SrcRoot, ft)))

LibNext ==
    \/ CallAlbumDirWithFt
    \/ CallPathToDetails
    \/ CallMergeWith
    \/ CallFileType
    \/ CallFinalize
    \/ CallCreateLookup
    \/ CallGroupFiles

LibSpec == LibInit /\ [][LibNext]_vars

-----------------------------------------------------------------------------
(* The requests to the music database.  The third specification runs the    *)
(* loops of FillInCoverFiles and CleanUpTags over the albums of a           *)
(* directory: di is the album the loop is at, ops the requests sent and the *)
(* pauses made, in order.                                                   *)

\* number of albums the command goes through
MaxInfoAlbums == 2

\* what the database answers: the header X-Discogs-Ratelimit-Remaining, whether
\* a result has a title, and whether what follows the search works (the cover
\* can be downloaded, the title has the form "<artist> - <album>")
Responses ==
    [remaining : {None, Some(0), Some(1), Some(2)}, matched : BOOLEAN, rest : BOOLEAN]

\* get_album_json: the remaining quota beside the best result, or an error
get_album_json(resp) ==
    IF resp.matched
    THEN Some(IF IsSome(resp.remaining) THEN Unwrap(resp.remaining) ELSE 0)
    ELSE None

\* download_cover_file
download_cover_file(resp) ==
    IF IsSome(get_album_json(resp)) /\ resp.rest THEN get_album_json(resp) ELSE None

\* get_album_info_discogs
get_album_info_discogs(resp) ==
    IF IsSome(get_album_json(resp)) /\ resp.rest THEN get_album_json(resp) ELSE None

\* the request and, when the caller got a limit of at most 1, the pause of 60 s
RequestThenPause(resp, res) ==
    <<[op |-> "request", a |-> di, b |-> resp]>>
    \o (IF IsSome(res) /\ Unwrap(res) <= 1
        THEN <<[op |-> "sleep", a |-> di, b |-> res]>>
        ELSE <<>>)

\* MusicInfoCache::get_album_info: no request when the album is in the cache
get_album_info(cached, resp) ==
    IF cached THEN <<>> ELSE RequestThenPause(resp, get_album_info_discogs(resp))

InfoInit ==
    /\ fs = {}
    /\ dirs = {}
    /\ env = [encFail |-> {}, devices |-> 0, start |-> {}]
    /\ config = [source_directories |-> <<SrcRoot>>, destinations |-> <<>>]
    /\ run = 0
    /\ pc \in {"FillInCoverFiles", "CleanUpTags"}
    /\ dests = <<>>
    /\ di = 1
    /\ pass = NoPass
    /\ ops = <<>>
    /\ synced = <<>>

\* Commands::FillInCoverFiles, one album of the loop
FillInCoverFile ==
    /\ pc = "FillInCoverFiles" /\ di <= MaxInfoAlbums
    /\ \E resp \in Responses : ops' = ops \o RequestThenPause(resp, download_cover_file(resp))
    /\ di' = di + 1
    /\ UNCHANGED <<fs, dirs, env, config, run, pc, dests, pass, synced>>

\* Commands::CleanUpTags, one album of the loop
CleanUpTag ==
    /\ pc = "CleanUpTags" /\ di <= MaxInfoAlbums
    /\ \E resp \in Responses, cached \in BOOLEAN : ops' = ops \o get_album_info(cached, resp)
    /\ di' = di + 1
    /\ UNCHANGED <<fs, dirs, env, config, run, pc, dests, pass, synced>>

\* the command returns
InfoDone ==
    /\ pc \in {"FillInCoverFiles", "CleanUpTags"} /\ di > MaxInfoAlbums
    /\ pc' = "done"
    /\ UNCHANGED <<fs, dirs, env, config, run, dests, di, pass, ops, synced>>

InfoNext ==
    \/ FillInCoverFile
    \/ CleanUpTag
    \/ InfoDone

InfoSpec == InfoInit /\ [][InfoNext]_vars

-----------------------------------------------------------------------------
(* Vocabulary of the properties *)

\* the operations of the log that touch files or directories
FileOpKinds == {"del_album", "copy_full_album", "copy_track", "copy_cover", "encode", "mkdir"}

FileOpsOf(log) == {i \in 1..Len(log) : log[i].op \in FileOpKinds}

\* the destination sync_to_loc is working on
Dest == dests[di]

\* sync_to_loc has run both loops to their end
PassComplete == pc = "step3" /\ pass.todo3 = {}

\* the keys of the lookup
KeysOf(lookup) == {k[1] : k \in DOMAIN lookup}

\* lossy to lossless, the one conversion the design forbids
LossyToLossless(src_ft, dest_ft) ==
    dest_ft \in {"Flac", "Wav"} /\ src_ft \in {"MP3", "M4A"}

-----------------------------------------------------------------------------
(* C1: idempotence of sync_to_loc *)

\* C1 (as claimed): once a Sync run has completed, a second run on what it left,
\* with the same configuration and a working encoder, performs no file operation:
\* no del_album, no copy_full_album, no file copy, no encoder run, no mkdir.
C1_SecondRunIdle ==
    (run = 2 /\ env.encFail = {}) => FileOpsOf(ops) = {}

-----------------------------------------------------------------------------
(* C2: after a pass every source key is at the destination *)

\* the albums a listing of the destination finds now
DestAlbums == albums_of(LocationOf(Dest), fs)

\* no transfer, no directory operation, no encoder run and no conversion of the
\* pass has failed or was rejected
NothingFailed ==
    \A i \in 1..Len(ops) : ops[i].op \in FileOpKinds \cup {"convert"} => ops[i].ok

\* a copy of the desired type exists among the types or can be converted from them
Obtainable(types, dt) == dt \in types \/ \E t \in types : ~LossyToLossless(t, dt)

PresentAt(albums, key) == \E a \in albums : Key(a) = key

PresentAs(albums, key, dt) == \E a \in albums : Key(a) = key /\ file_type(a) = Some(dt)

\* C2 (as claimed): after a pass in which nothing failed, every key of the source
\* lookup is a key of the destination's listing, and it is there in the desired
\* type whenever an exact or convertible source copy exists.
C2_EveryKeyAtDestination ==
    (PassComplete /\ NothingFailed) =>
        \A key \in KeysOf(pass.album_lookup) :
            /\ PresentAt(DestAlbums, key)
            /\ Obtainable(TypesOf(pass.album_lookup, key), Dest[2])
                   => PresentAs(DestAlbums, key, Dest[2])

-----------------------------------------------------------------------------
(* C3: a wrong-type destination album without a source is left alone *)

\* the files at or below a directory
FilesBelow(files, dir) == {f \in files : IsPrefix(dir, Parent(f.path))}

\* no copy of the desired type can be obtained for the key: the lookup has no
\* entry of that type and every entry it has is lossy while the type is lossless
Unobtainable(lookup, key, dt) ==
    \A t \in TypesOf(lookup, key) : t # dt /\ LossyToLossless(t, dt)

\* the albums of the destination's listing the claim is about
WrongTypeNoSource ==
    {a \in pass.albums :
        /\ IsSome(file_type(a))
        /\ Unwrap(file_type(a)) # Dest[2]
        /\ Unobtainable(pass.album_lookup, Key(a), Dest[2])}

\* C3 (as claimed): during a pass, a destination album of the wrong type for
\* which no copy of the desired type can be obtained is never the argument of
\* del_album and no file is copied into its directory.
C3_WrongTypeAlbumUntouched ==
    pc \in {"step2", "step3"} =>
        \A a \in WrongTypeNoSource :
            /\ \A i \in 1..Len(ops) : ops[i].op = "del_album" => ops[i].a # a.dir_path
            /\ FilesBelow(fs, a.dir_path) = FilesBelow(pass.start, a.dir_path)

-----------------------------------------------------------------------------
(* C4: lossy to lossless is rejected before any work *)

\* the calls of convert_src_album in the log that ask for a lossless album from
\* a lossy one
LossyToLosslessCalls ==
    {i \in 1..Len(ops) :
        ops[i].op = "convert" /\ LossyToLossless(ops[i].a.src_ft, ops[i].a.dest_ft)}

\* C4: every call of convert_src_album with a lossy source and a lossless target
\* returns an error, and nothing was done between its entry and its return: no
\* directory was created, no cover copied, the encoder not run.
C4_LossyToLosslessRejected ==
    \A i \in LossyToLosslessCalls :
        /\ ~ops[i].ok
        /\ ops[i].b = None
        /\ ops[i].a.n = i - 1

\* C4, the case: a conversion from MP3 to FLAC was asked for and rejected.
C4_Witness ==
    \E i \in LossyToLosslessCalls :
        ops[i].a.src_ft = "MP3" /\ ops[i].a.dest_ft = "Flac" /\ ~ops[i].ok

-----------------------------------------------------------------------------
(* C5: the end-to-end example *)

\* one source album /src/Poppy/Poppy - Choke [FLAC] with a track and a cover, an
\* empty destination /dst, MP3 desired, allowAny off, a working encoder, one run
C5_Scenario ==
    /\ env.start = ShelfFiles(SrcRoot, {ChokeFlac})
    /\ env.encFail = {}
    /\ config.source_directories = <<SrcRoot>>
    /\ config.destinations = Destinations("dir", "MP3", FALSE)
    /\ run = 1 /\ pc = "done"

\* C5 (as claimed): the run leaves /dst/Poppy/Choke [MP3]/01 Track.mp3 and
\* cover.jpg beside it at the destination.
C5_ChokeMp3AtDestination ==
    C5_Scenario =>
        {DstRoot \o <<Poppy, <<"Choke", " ", "[MP3]">>, Track("01 Track", "mp3")>>,
         DstRoot \o <<Poppy, <<"Choke", " ", "[MP3]">>, Cover>>} \subseteq Paths(fs)

-----------------------------------------------------------------------------
(* C6, C7: copy_missing_files *)

\* the calls of copy_missing_files that found the destination album's directory
MissingFilesCalls ==
    {i \in 1..Len(ops) : ops[i].op = "copy_missing_files" /\ ops[i].a.exists}

\* C6: a call of copy_missing_files that finds the destination album's directory
\* transfers exactly the tracks named in src.tracks and not in dst.tracks (so no
\* track named in dst.tracks is transferred), and each of them that is a file of
\* the source album's directory arrives in the destination album's directory.
C6_ExactlyMissingTracks ==
    \A i \in MissingFilesCalls :
        /\ ops[i].b.tracks = Range(ops[i].a.src.tracks) \ Range(ops[i].a.dst.tracks)
        /\ \A t \in ops[i].b.tracks :
               PathJoin(ops[i].a.src.dir_path, t) \in Paths(fs)
                   => PathJoin(ops[i].a.dst.dir_path, t) \in Paths(fs)

\* C6, the case: the source album has two tracks, the destination album one of
\* them, and exactly the other one was transferred.
C6_Witness ==
    \E i \in MissingFilesCalls :
        /\ Len(ops[i].a.src.tracks) = 2
        /\ Len(ops[i].a.dst.tracks) = 1
        /\ ops[i].b.tracks = {Track("02 Track", "mp3")}
        /\ PathJoin(ops[i].a.dst.dir_path, Track("02 Track", "mp3")) \in Paths(fs)

\* the names of cover files
CoverNames(covers) == {FileName(c) : c \in covers}

\* C7 (as claimed): a call of copy_missing_files that finds the destination
\* album's directory transfers every cover file of the source album whose name
\* no cover file of the destination album has.
C7_MissingCoversCopied ==
    \A i \in MissingFilesCalls :
        CoverNames(ops[i].a.src.cover_files) \ CoverNames(ops[i].a.dst.cover_files)
            \subseteq ops[i].b.covers

-----------------------------------------------------------------------------
(* C8: step 2 before step 3 *)

\* C8: in the log of a pass every operation of the first loop (over the albums
\* of the location) precedes every operation of the second loop (over the source
\* albums), and the second loop runs only when the first has visited every album
\* of the location.
C8_Step2BeforeStep3 ==
    /\ \A i, j \in 1..Len(ops) : (ops[i].step = 2 /\ ops[j].step = 3) => i < j
    /\ (pc = "step3" \/ \E i \in 1..Len(ops) : ops[i].step = 3) => pass.todo2 = {}

\* C8, the case: a pass that repaired or deleted an album of the location and
\* then copied a missing album.
C8_Witness ==
    \E i, j \in 1..Len(ops) :
        /\ ops[i].step = 2 /\ ops[i].op \in {"del_album", "copy_missing_files"}
        /\ ops[j].step = 3 /\ ops[j].op = "copy_full_album"

-----------------------------------------------------------------------------
(* C9: the order of the destinations *)

\* C9 (as claimed): no device destination is reconciled before a directory
\* destination.
C9_DirectoriesBeforeDevices ==
    \A i, j \in 1..Len(synced) :
        i < j => ~(synced[i].kind = "ADBDest" /\ synced[j].kind = "PathDest")

\* the destination is a directory that is also a source root
IsSourceRoot(d) ==
    d.kind = "PathDest" /\
    \E k \in 1..Len(config.source_directories) : config.source_directories[k] = d.path

\* the position of the destination in the configuration
ConfigIndex(d) ==
    CHOOSE k \in 1..Len(config.destinations) : config.destinations[k][1] = d

\* C9 (amended): the directory destinations that are source roots are reconciled
\* before every other destination; among the others, and among the source roots,
\* the configured order is kept.
C9_SourceRootsFirst ==
    \A i, j \in 1..Len(synced) :
        i < j =>
            /\ IsSourceRoot(synced[j]) => IsSourceRoot(synced[i])
            /\ IsSourceRoot(synced[i]) = IsSourceRoot(synced[j])
                   => ConfigIndex(synced[i]) < ConfigIndex(synced[j])

\* C9, the case: the device is configured first, the directory is a source root
\* and was reconciled before the device.
C9_Witness ==
    /\ Len(synced) = 2
    /\ config.destinations[1][1].kind = "ADBDest"
    /\ synced[1].kind = "PathDest" /\ IsSourceRoot(synced[1])
    /\ synced[2].kind = "ADBDest"

-----------------------------------------------------------------------------
(* C10: get_ft_src_album *)

GetFtCalls == {i \in 1..Len(ops) : ops[i].op = "get_ft_src_album"}

\* the file operations and accepted conversions between the entry of the call
\* logged at i and its return
WorkDuring(i) ==
    {j \in (ops[i].a.n + 1)..(i - 1) :
        ops[j].op \in FileOpKinds \/ (ops[j].op = "convert" /\ ops[j].ok)}

\* C10 (as claimed): the exact entry when the lookup has one; else a converted
\* copy only if the lookup has a lossless copy of the key and the desired type is
\* lossy; else none, and no conversion.
C10_LosslessSourcesOnly ==
    \A i \in GetFtCalls :
        IF ops[i].a.dest_ft \in ops[i].a.types THEN ops[i].b.how = "exact"
        ELSE IF /\ ops[i].a.types \cap {"Flac", "Wav"} # {}
                /\ ops[i].a.dest_ft \notin {"Flac", "Wav"}
        THEN ops[i].b.how = "converted"
        ELSE ops[i].b.how = "none" /\ WorkDuring(i) = {}

\* the first type of src_ft_order among the types that may be converted to dt
FirstConvertible(types, dt) ==
    src_ft_order[First({k \in 1..Len(src_ft_order) :
                           /\ src_ft_order[k] \in types
                           /\ ~LossyToLossless(src_ft_order[k], dt)})]

\* C10 (amended): the exact entry when the lookup has one; else the conversion of
\* the first copy of the key, in the order FLAC, WAV, MP3, M4A, that is not a
\* lossy copy for a lossless desired type; else none, and nothing was done.
C10_FirstPermittedConversion ==
    \A i \in GetFtCalls :
        IF ops[i].a.dest_ft \in ops[i].a.types
        THEN /\ ops[i].b.how = "exact"
             /\ ops[i].b.res = Some(pass.album_lookup[<<ops[i].a.key, ops[i].a.dest_ft>>].album)
             /\ WorkDuring(i) = {}
        ELSE IF \E t \in ops[i].a.types : ~LossyToLossless(t, ops[i].a.dest_ft)
        THEN /\ ops[i].b.how = "converted"
             /\ ops[i].b.from = Some(FirstConvertible(ops[i].a.types, ops[i].a.dest_ft))
             /\ Key(Unwrap(ops[i].b.res)) = ops[i].a.key
             /\ file_type(Unwrap(ops[i].b.res)) = Some(ops[i].a.dest_ft)
        ELSE /\ ops[i].b.how = "none"
             /\ ops[i].b.res = None
             /\ WorkDuring(i) = {}

\* C10, the case: a lossy copy was converted to another lossy type.
C10_Witness ==
    \E i \in GetFtCalls :
        /\ ops[i].b.how = "converted"
        /\ ops[i].b.from = Some("M4A")
        /\ ops[i].a.dest_ft = "MP3"

-----------------------------------------------------------------------------
(* C11: the copy allowAny falls back to *)

\* the call of get_ft_src_album that precedes the operation logged at i
LastGetFt(i) ==
    CHOOSE g \in GetFtCalls : g < i /\ \A h \in GetFtCalls : h < i => h <= g

\* the copies of whole source albums the second loop made after get_ft_src_album
\* had found neither an exact nor a converted copy
FallbackCopies ==
    {i \in 1..Len(ops) :
        /\ ops[i].op = "copy_full_album" /\ ops[i].step = 3
        /\ \E g \in GetFtCalls : g < i
        /\ ops[LastGetFt(i)].b.how = "none"
        /\ ops[LastGetFt(i)].a.types # {}}

\* the first type of src_ft_order among the types
FirstAvailable(types) ==
    src_ft_order[First({k \in 1..Len(src_ft_order) : src_ft_order[k] \in types})]

\* C11 (as claimed): when the second loop copies a source album because neither
\* an exact nor a converted copy could be had and allowAny is set, the album it
\* copies is the source copy of the key of the first available type in the
\* order FLAC, WAV, MP3, M4A, whatever the order the lookup is iterated in.
C11_FirstAvailableTypeCopied ==
    \A i \in FallbackCopies :
        ops[i].a = pass.album_lookup[<<ops[LastGetFt(i)].a.key,
                                       FirstAvailable(ops[LastGetFt(i)].a.types)>>
                                    ].album.dir_path

-----------------------------------------------------------------------------
(* C12: a conversion succeeds only if every track was encoded *)

\* the runs of the encoder between the entry of the call of convert_src_album
\* logged at i and its return
EncoderRuns(i) == {j \in (ops[i].a.n + 1)..(i - 1) : ops[j].op = "encode"}

\* C12 (as claimed): a call of convert_src_album during which the encoder failed
\* on a track it cannot encode reports a failure and returns no converted album.
C12_FailedEncodingReported ==
    \A i \in 1..Len(ops) :
        (/\ ops[i].op = "convert"
         /\ \E j \in EncoderRuns(i) : ~ops[j].ok /\ FileName(ops[j].a) \in env.encFail)
            => ~ops[i].ok /\ ops[i].b = None

-----------------------------------------------------------------------------
(* C13, C14: Album::merge_with *)

MergeCalls == {i \in 1..Len(ops) : ops[i].op = "merge_with"}

SameAlbum(self, other) ==
    /\ self.title = other.title
    /\ self.artist = other.artist
    /\ self.dir_path = other.dir_path

\* C13: a call of merge_with returns a merged album if and only if the two albums
\* have equal title, equal artist and equal directory path; otherwise it returns
\* an error and no album.
C13_MergeIffSameAlbum ==
    \A i \in MergeCalls :
        /\ IsSome(ops[i].b) <=> SameAlbum(ops[i].a.self, ops[i].a.other)
        /\ ~SameAlbum(ops[i].a.self, ops[i].a.other) => ops[i].b = None

\* C13, the case: two albums of equal title and artist in two directories, and
\* the merge failed.
C13_Witness ==
    \E i \in MergeCalls :
        /\ ops[i].a.self.title = ops[i].a.other.title
        /\ ops[i].a.self.artist = ops[i].a.other.artist
        /\ ops[i].a.self.dir_path # ops[i].a.other.dir_path
        /\ ops[i].b = None

\* strictly ascending in the order of strings
Ascending(strs) == \A j, k \in 1..Len(strs) : j < k => StrLess(strs[j], strs[k])

\* C14: a successful merge returns the tracks of both albums, each once, in
\* ascending order, the cover files of both albums, each once, and the title,
\* artist and directory path of the album it was called on.
C14_MergeIsSortedUnion ==
    \A i \in MergeCalls :
        IsSome(ops[i].b) =>
            /\ Range(Unwrap(ops[i].b).tracks)
                   = Range(ops[i].a.self.tracks) \cup Range(ops[i].a.other.tracks)
            /\ Ascending(Unwrap(ops[i].b).tracks)
            /\ Unwrap(ops[i].b).cover_files
                   = ops[i].a.self.cover_files \cup ops[i].a.other.cover_files
            /\ Unwrap(ops[i].b).title = ops[i].a.self.title
            /\ Unwrap(ops[i].b).artist = ops[i].a.self.artist
            /\ Unwrap(ops[i].b).dir_path = ops[i].a.self.dir_path

\* C14, the case: the album with the second track is merged with an album that
\* has both tracks and a cover, and the result has the two tracks in order.
C14_Witness ==
    \E i \in MergeCalls :
        /\ ops[i].a.self.tracks = <<Track("02 Track", "mp3")>>
        /\ ops[i].a.other.tracks = <<Track("01 Track", "mp3"), Track("02 Track", "mp3")>>
        /\ ops[i].a.other.cover_files # {}
        /\ IsSome(ops[i].b)
        /\ Unwrap(ops[i].b).tracks = <<Track("01 Track", "mp3"), Track("02 Track", "mp3")>>
        /\ Unwrap(ops[i].b).cover_files = ops[i].a.other.cover_files

-----------------------------------------------------------------------------
(* C15, C16, C17: path_to_details *)

\* the components of the path below the root
PartsOf(call) == SubSeq(call.a.path, Len(call.a.root_dir) + 1, Len(call.a.path))

\* the calls of path_to_details on <root>/<artist>/<album>/<file>
ThreeComponentCalls ==
    {i \in 1..Len(ops) : ops[i].op = "path_to_details" /\ Len(PartsOf(ops[i])) = 3}

\* C15 (as claimed): for a path of exactly three components below the root,
\* path_to_details yields the first segment as the artist, the second segment as
\* the album title and the third segment as the file, each as written in the path.
C15_SegmentsAsWritten ==
    \A i \in ThreeComponentCalls :
        /\ IsSome(ops[i].b)
        /\ Unwrap(ops[i].b).artist = PartsOf(ops[i])[1]
        /\ Unwrap(ops[i].b).title = PartsOf(ops[i])[2]
        /\ is_music(ops[i].a.path) => Unwrap(ops[i].b).tracks = <<PartsOf(ops[i])[3]>>
        /\ is_image(ops[i].a.path) => Unwrap(ops[i].b).cover_files = {ops[i].a.path}

\* the bracketed annotations path_to_details looks for
KnownTags == {Bracket(AnnotationCandidates[k]) : k \in 1..Len(AnnotationCandidates)}

\* the last token of the trimmed name
LastToken(name) == Trim(name)[Len(Trim(name))]

\* the trimmed name without its last token
WithoutLastToken(name) == Trim(SubSeq(Trim(name), 1, Len(Trim(name)) - 1))

\* C16 (as claimed): when the album segment ends in a bracketed known-format tag,
\* parsed_title is the album name without the tag and the title still has it.
C16_TitleKeepsTag ==
    \A i \in ThreeComponentCalls :
        LastToken(PartsOf(ops[i])[2]) \in KnownTags =>
            /\ IsSome(ops[i].b)
            /\ Unwrap(ops[i].b).parsed_title = WithoutLastToken(PartsOf(ops[i])[2])
            /\ \E k \in 1..Len(Unwrap(ops[i].b).title) :
                   Unwrap(ops[i].b).title[k] = LastToken(PartsOf(ops[i])[2])

\* str::to_lowercase on the bracketed annotations
TagLowercase(t) ==
    CASE t \in {"[FLAC]", "[Flac]", "[flac]"} -> "[flac]"
      [] t \in {"[MP3]", "[Mp3]", "[mp3]"} -> "[mp3]"
      [] t \in {"[WAV]", "[Wav]", "[wav]"} -> "[wav]"
      [] t \in {"[M4A]", "[M4a]", "[m4a]"} -> "[m4a]"
      [] OTHER -> t

\* the token is a file-type annotation in some case
IsTagAnyCase(t) ==
    \E k \in 1..Len(MUSIC_EXTENSIONS) : TagLowercase(t) = Bracket(MUSIC_EXTENSIONS[k])

WithoutToken(name, t) == SelectSeq(name, LAMBDA x : x # t)

-----------------------------------------------------------------------------
(* C18: Album::finalize *)

FinalizeCalls == {i \in 1..Len(ops) : ops[i].op = "finalize"}

\* the album artist in the tags of the album's track, None when it has none
TagOf(a, t) == FileAt(fs, PathJoin(a.dir_path, t)).aa

\* the tracks of the album whose tags name an album artist
Tagged(a) == {t \in Range(a.tracks) : IsSome(TagOf(a, t))}

\* the number of tracks whose tags name x as the album artist
TagCount(a, x) == Cardinality({t \in Tagged(a) : TagOf(a, t) = Some(x)})

\* the album artists no other album artist is more frequent than
MostFrequent(a) ==
    {Unwrap(TagOf(a, t)) : t \in {u \in Tagged(a) :
        \A v \in Tagged(a) : TagCount(a, Unwrap(TagOf(a, u))) >= TagCount(a, Unwrap(TagOf(a, v)))}}

\* the title without the lower-case annotation of the album's type
TitleLessOwnTag(a) ==
    IF IsSome(file_type(a))
    THEN Trim(WithoutToken(a.title, Bracket(get_name(Unwrap(file_type(a))))))
    ELSE a.title

\* C18 (as claimed): after finalize, when a track has an album artist in its
\* tags, parsed_artist, and with it the key, is the most frequent album artist of
\* the tags, and parsed_title is the title without the annotation.
C18_ParsedArtistFromTags ==
    \A i \in FinalizeCalls :
        Tagged(ops[i].a) # {} =>
            /\ ops[i].b.parsed_artist \in MostFrequent(ops[i].a)
            /\ Key(ops[i].b) = ops[i].b.parsed_artist \o <<"###">> \o ops[i].b.parsed_title
            /\ ops[i].b.parsed_title = TitleLessOwnTag(ops[i].a)

\* C18 (amended): after finalize, when a track has an album artist in its tags,
\* the artist is a most frequent album artist of the tags, while parsed_artist,
\* and with it the artist part of the key, is still the one parsed from the
\* path; parsed_title is the title without the lower-case annotation of the
\* album's own type.
C18_ArtistFromTags ==
    \A i \in FinalizeCalls :
        Tagged(ops[i].a) # {} =>
            /\ ops[i].b.artist \in MostFrequent(ops[i].a)
            /\ ops[i].b.parsed_artist = ops[i].a.parsed_artist
            /\ Key(ops[i].b) = ops[i].a.parsed_artist \o <<"###">> \o ops[i].b.parsed_title
            /\ ops[i].b.parsed_title = TitleLessOwnTag(ops[i].a)

\* C18, the case: two of three tracks name Zig and one names Poppy, the album
\* lies in Poppy's directory; the artist becomes Zig and the key keeps Poppy.
C18_Witness ==
    \E i \in FinalizeCalls :
        /\ TagCount(ops[i].a, <<"Zig">>) = 2
        /\ TagCount(ops[i].a, Poppy) = 1
        /\ ops[i].a.parsed_artist = Poppy
        /\ ops[i].b.artist = <<"Zig">>
        /\ ops[i].b.parsed_artist = Poppy

-----------------------------------------------------------------------------
(* C19: Album::file_type *)

FileTypeCalls == {i \in 1..Len(ops) : ops[i].op = "file_type"}

\* the album has a track and every track's name ends in "." and the type's name
AllTracksOfType(a, t) ==
    /\ Len(a.tracks) >= 1
    /\ \A k \in 1..Len(a.tracks) : EndsWith(a.tracks[k], <<".", get_name(t)>>)

\* C19: file_type returns Some(t) if and only if the album has at least one track
\* and every track has the extension of t; for an album without tracks or with
\* tracks of several extensions it returns None.
C19_TypeIffAllTracksShareIt ==
    \A i \in FileTypeCalls :
        /\ \A t \in FileType : ops[i].b = Some(t) <=> AllTracksOfType(ops[i].a, t)
        /\ ops[i].b = None \/ \E t \in FileType : ops[i].b = Some(t)

\* C19, the case: an album with a FLAC track and an MP3 track has no type.
C19_Witness ==
    \E i \in FileTypeCalls :
        /\ Track("01 Track", "flac") \in Range(ops[i].a.tracks)
        /\ Track("01 Track", "mp3") \in Range(ops[i].a.tracks)
        /\ ops[i].b = None

-----------------------------------------------------------------------------
(* C20: create_source_album_lookup *)

LookupCalls == {i \in 1..Len(ops) : ops[i].op = "create_source_album_lookup"}

\* the albums below the root that have the key and the type
AlbumsAs(root, key, ft) ==
    {a \in albums_in_dir(fs, root) : Key(a) = key /\ file_type(a) = Some(ft)}

\* the (key, type) pairs of the albums below the root that have a type
TypedKeys(root) ==
    {<<Key(a), Unwrap(file_type(a))>> :
        a \in {b \in albums_in_dir(fs, root) : IsSome(file_type(b))}}

\* the last of the source roots that has an album of the key and type
LastRootWith(source_dirs, e) ==
    source_dirs[CHOOSE k \in 1..Len(source_dirs) :
                    /\ AlbumsAs(source_dirs[k], e[1], e[2]) # {}
                    /\ \A j \in (k + 1)..Len(source_dirs) :
                           AlbumsAs(source_dirs[j], e[1], e[2]) = {}]

\* C20: the lookup has an entry for (key, type) if and only if some album below
\* some source root has that key and that type; albums without a type have no
\* entry; and the entry of a pair that several roots have is an album of the
\* last of these roots in the configured order.
C20_LookupHoldsTypedAlbums ==
    \A i \in LookupCalls :
        /\ DOMAIN ops[i].b = UNION {TypedKeys(ops[i].a[k]) : k \in 1..Len(ops[i].a)}
        /\ \A e \in DOMAIN ops[i].b :
               /\ ops[i].b[e].src = LastRootWith(ops[i].a, e)
               /\ ops[i].b[e].album \in AlbumsAs(LastRootWith(ops[i].a, e), e[1], e[2])

\* C20, the case: /dst is configured before /src, both hold the MP3 album of one
\* key and /src holds an album of mixed types as well; the entry is the album of
\* /src and the mixed album has none.
C20_Witness ==
    \E i \in LookupCalls :
        /\ ops[i].a = <<DstRoot, SrcRoot>>
        /\ AlbumFiles(SrcRoot, ChokeMp3) \cup AlbumFiles(DstRoot, ChokeMp3)
           \cup AlbumFiles(SrcRoot, FluxMixed) \subseteq fs
        /\ DOMAIN ops[i].b = {<<Poppy \o <<"###", "Poppy", " ", "-", " ", "Choke">>, "MP3">>}
        /\ \A e \in DOMAIN ops[i].b :
               /\ ops[i].b[e].src = SrcRoot
               /\ IsPrefix(SrcRoot, ops[i].b[e].album.dir_path)

-----------------------------------------------------------------------------
(* C21: a failure of one destination and the other destinations *)

\* the run is over: the command returned or the process panicked
RunOver == pc \in {"done", "panicked"}

\* a Location can be made of the destination and its albums can be listed
Usable(d) == IF d.kind = "PathDest" THEN d.path \in dirs ELSE DeviceReachable

SourcesListable ==
    \A k \in 1..Len(config.source_directories) : config.source_directories[k] \in dirs

\* C21 (as claimed): when the run is over and the source roots can be listed,
\* sync_to_loc was called for every configured destination that can be used,
\* whatever happened at the other destinations.
C21_OtherDestinationsReconciled ==
    (RunOver /\ SourcesListable) =>
        \A k \in 1..Len(config.destinations) :
            Usable(config.destinations[k][1]) =>
                \E j \in 1..Len(synced) : synced[j] = config.destinations[k][1]

-----------------------------------------------------------------------------
(* C22: copy_full_album and the failure of one transfer *)

\* where copy_full_album, logged at i, puts the file of the source directory
TargetOf(i, f) == ops[i].b \o SubSeq(f.path, Len(ops[i].a) + 1, Len(f.path))

\* C22 (as claimed): when copy_full_album has just failed on a source directory
\* that exists, the transfer of every file of the directory was attempted all
\* the same: each file is at the destination, the one whose transfer failed
\* because it was there already and the others because they were copied.
C22_RemainingFilesTransferred ==
    (/\ Len(ops) > 0
     /\ ops[Len(ops)].op = "copy_full_album"
     /\ ~ops[Len(ops)].ok
     /\ ops[Len(ops)].a \in dirs)
        => \A f \in FilesBelow(fs, ops[Len(ops)].a) : TargetOf(Len(ops), f) \in Paths(fs)

-----------------------------------------------------------------------------
(* C23: the pause after a response with an exhausted quota *)

\* the requests whose response reports a remaining quota of at most 1
NearExhaustion ==
    {i \in 1..Len(ops) :
        /\ ops[i].op = "request"
        /\ IsSome(ops[i].b.remaining)
        /\ Unwrap(ops[i].b.remaining) <= 1}

\* C23 (as claimed): between a request whose response reports a remaining quota
\* of at most 1 and the next request the caller pauses, whether or not the
\* request found a matching result.
C23_PauseBeforeNextRequest ==
    \A i \in NearExhaustion :
        \A j \in (i + 1)..Len(ops) :
            ops[j].op = "request" => \E k \in (i + 1)..(j - 1) : ops[k].op = "sleep"

-----------------------------------------------------------------------------
(* C24: what the first loop deletes *)

\* the deletions the first loop made
Deletions == {i \in 1..Len(ops) : ops[i].op = "del_album" /\ ops[i].step = 2}

\* the album of the listing whose directory was deleted at i
Deleted(i) == CHOOSE a \in pass.albums : a.dir_path = ops[i].a

\* the first attempt to copy a whole album after i
NextFullCopy(i) ==
    First({j \in (i + 1)..Len(ops) : ops[j].op = "copy_full_album"})

\* the albums of the listing of another type than the desired one, with an album
\* of their key in the desired type in the listing
Superseded ==
    {a \in pass.albums :
        /\ IsSome(file_type(a)) /\ file_type(a) # Some(Dest[2])
        /\ DestHasType(pass.albums, a, Dest[2])}

\* C24: the first loop deletes an album of the location only if its type is not
\* the desired one, get_ft_src_album returned a source copy for it, and no album
\* of the listing has its key in the desired type; the deletion is followed, with
\* no other deletion in between, by an attempt to copy that source copy
\* whole; and while the first loop runs, an album of the listing whose key the
\* listing also has in the desired type keeps its directory and its files.
C24_DeletionGuarded ==
    pc \in {"step2", "step3"} =>
        /\ \A i \in Deletions :
            /\ \E a \in pass.albums : a.dir_path = ops[i].a
            /\ IsSome(file_type(Deleted(i)))
            /\ file_type(Deleted(i)) # Some(Dest[2])
            /\ ~DestHasType(pass.albums, Deleted(i), Dest[2])
            /\ \E g \in GetFtCalls : g < i
            /\ ops[LastGetFt(i)].a.key = Key(Deleted(i))
            /\ IsSome(ops[LastGetFt(i)].b.res)
            /\ \E j \in (i + 1)..Len(ops) : ops[j].op = "copy_full_album"
            /\ ops[NextFullCopy(i)].a = Unwrap(ops[LastGetFt(i)].b.res).dir_path
            /\ \A k \in (i + 1)..(NextFullCopy(i) - 1) :
                    ops[k].op # "del_album"
        /\ pc = "step2" =>
            \A a \in Superseded :
                /\ a.dir_path \in dirs
                /\ FilesBelow(fs, a.dir_path) = FilesBelow(pass.start, a.dir_path)

\* C24 (witness): the first loop has deleted an album of the location and copied
\* the source copy in its place
C24_Witness ==
    /\ pc \in {"step2", "step3"}
    /\ \E i \in Deletions :
        /\ ops[i].ok
        /\ \E j \in (i + 1)..Len(ops) : ops[j].op = "copy_full_album"
        /\ ops[NextFullCopy(i)].ok

-----------------------------------------------------------------------------
(* C25: one album per directory *)

GroupCalls == {i \in 1..Len(ops) : ops[i].op = "group_files_into_albums"}

\* the places in the list of the files of the directory that path_to_details parses
ParsedIn(file_paths, root, dir) ==
    {k \in 1..Len(file_paths) :
        Parent(file_paths[k]) = dir /\ IsSome(path_to_details(file_paths[k], root))}

\* the record of the file at place k
RecordOf(file_paths, root, k) == Unwrap(path_to_details(file_paths[k], root))

\* the places whose record names the album and artist of the directory's first record
Accepted(file_paths, root, dir) ==
    {k \in ParsedIn(file_paths, root, dir) :
        /\ RecordOf(file_paths, root, k).title =
               RecordOf(file_paths, root, First(ParsedIn(file_paths, root, dir))).title
        /\ RecordOf(file_paths, root, k).artist =
               RecordOf(file_paths, root, First(ParsedIn(file_paths, root, dir))).artist}

\* the places whose file is skipped: no record, or a record that does not merge
Skipped(file_paths, root) ==
    {k \in 1..Len(file_paths) : k \notin Accepted(file_paths, root, Parent(file_paths[k]))}

\* the path below the root has fewer than two components, or two of which neither
\* the first nor the second, less "<first> - ", holds " - "
Unparseable(path, root) ==
    \/ Len(path) - Len(root) < 2
    \/ /\ Len(path) - Len(root) = 2
       /\ ~IsSome(SplitOnce(path[Len(root) + 1], Dash))
       /\ ~IsSome(SplitOnce(ReplaceAll(path[Len(root) + 2], path[Len(root) + 1] \o Dash,
                                       <<>>), Dash))

\* C25: group_files_into_albums returns one album for each directory that holds
\* a file path_to_details parses, and no other album; a file it does not parse,
\* or whose record does not merge with the directory's, leaves no trace: the
\* album of a directory has the name and artist of the directory's first parsed
\* file and the tracks and covers of every file of the directory that merges,
\* wherever in the list the skipped files stand.  The files it does not parse
\* are those with fewer than two components below the root and those with two
\* components and no " - " to split at.
C25_OneAlbumPerDirectory ==
    \A i \in GroupCalls :
        /\ \A k \in 1..Len(ops[i].a.file_paths) :
               IsSome(path_to_details(ops[i].a.file_paths[k], ops[i].a.root))
                   <=> ~Unparseable(ops[i].a.file_paths[k], ops[i].a.root)
        /\ \A x, y \in ops[i].b : x.dir_path = y.dir_path => x = y
        /\ {x.dir_path : x \in ops[i].b} =
               {Parent(ops[i].a.file_paths[k]) :
                    k \in {n \in 1..Len(ops[i].a.file_paths) :
                              IsSome(path_to_details(ops[i].a.file_paths[n], ops[i].a.root))}}
        /\ \A x \in ops[i].b :
            /\ x.title = RecordOf(ops[i].a.file_paths, ops[i].a.root,
                                  First(ParsedIn(ops[i].a.file_paths, ops[i].a.root,
                                                 x.dir_path))).title
            /\ x.artist = RecordOf(ops[i].a.file_paths, ops[i].a.root,
                                   First(ParsedIn(ops[i].a.file_paths, ops[i].a.root,
                                                  x.dir_path))).artist
            /\ Range(x.tracks) =
                   UNION {Range(RecordOf(ops[i].a.file_paths, ops[i].a.root, k).tracks) :
                            k \in Accepted(ops[i].a.file_paths, ops[i].a.root, x.dir_path)}
            /\ x.cover_files =
                   UNION {RecordOf(ops[i].a.file_paths, ops[i].a.root, k).cover_files :
                            k \in Accepted(ops[i].a.file_paths, ops[i].a.root, x.dir_path)}

\* C25 (witness): a list with a file that does not parse, followed by a file that
\* went into an album, and a file whose record did not merge
C25_Witness ==
    \E i \in GroupCalls :
        /\ \E k \in Skipped(ops[i].a.file_paths, ops[i].a.root) :
            /\ ~IsSome(path_to_details(ops[i].a.file_paths[k], ops[i].a.root))
            /\ \E n \in (k + 1)..Len(ops[i].a.file_paths) :
                   n \notin Skipped(ops[i].a.file_paths, ops[i].a.root)
        /\ \E m \in Skipped(ops[i].a.file_paths, ops[i].a.root) :
               IsSome(path_to_details(ops[i].a.file_paths[m], ops[i].a.root))
        /\ ops[i].b # {}

\* C25 (as claimed): the files that do not parse are those with fewer than two
\* components below the root, so that group_files_into_albums returns an album
\* for every directory with a file two or more components below the root.
C25_AlbumForEveryDeepFile ==
    \A i \in GroupCalls :
        \A k \in 1..Len(ops[i].a.file_paths) :
            Len(ops[i].a.file_paths[k]) - Len(ops[i].a.root) >= 2 =>
                \E x \in ops[i].b : x.dir_path = Parent(ops[i].a.file_paths[k])

-----------------------------------------------------------------------------
(* C26: the source albums and del_album *)

\* the directory is below a configured source root
UnderSourceRoot(dir) ==
    \E k \in 1..Len(config.source_directories) : IsPrefix(config.source_directories[k], dir)

\* the directories del_album removed in this pass
DeletedDirs == {ops[i].a : i \in {j \in 1..Len(ops) : ops[j].op = "del_album" /\ ops[j].ok}}

\* C26 (as claimed): a pass deletes no album directory below a configured source
\* root; when the destination is a source root too, the directory of the album a
\* replacement copy was converted from is not among those del_album removed.
C26_SourceAlbumsKept ==
    pc \in {"step2", "step3"} =>
        /\ \A d \in DeletedDirs : ~UnderSourceRoot(d)
        /\ \A g \in GetFtCalls :
               ops[g].b.how = "converted" =>
                   pass.album_lookup[<<ops[g].a.key, Unwrap(ops[g].b.from)>>].album.dir_path
                       \notin DeletedDirs

-----------------------------------------------------------------------------
(* C27: what is copied when allowAny is off *)

FullCopies == {i \in 1..Len(ops) : ops[i].op = "copy_full_album"}

\* the accepted conversions to the type between the entry of the call logged at g
\* and its return
ConversionsIn(g, ft) ==
    {j \in (ops[g].a.n + 1)..(g - 1) :
        ops[j].op = "convert" /\ ops[j].ok /\ ops[j].a.dest_ft = ft}

\* C27: for a destination with allowAny off, the album of every copy_full_album
\* is the one the preceding get_ft_src_album returned for the desired type: the
\* entry the lookup has for the key and that type, or the album a conversion to
\* that type returned.
C27_ExactOrConverted ==
    (pc \in {"step2", "step3"} /\ ~Dest[3]) =>
        \A i \in FullCopies :
            /\ \E g \in GetFtCalls : g < i
            /\ ops[LastGetFt(i)].a.dest_ft = Dest[2]
            /\ IsSome(ops[LastGetFt(i)].b.res)
            /\ ops[i].a = Unwrap(ops[LastGetFt(i)].b.res).dir_path
            /\ \/ /\ ops[LastGetFt(i)].b.how = "exact"
                  /\ <<ops[LastGetFt(i)].a.key, Dest[2]>> \in DOMAIN pass.album_lookup
                  /\ ops[LastGetFt(i)].b.res =
                         Some(pass.album_lookup[<<ops[LastGetFt(i)].a.key, Dest[2]>>].album)
               \/ /\ ops[LastGetFt(i)].b.how = "converted"
                  /\ \E j \in ConversionsIn(LastGetFt(i), Dest[2]) :
                         ops[j].b = ops[LastGetFt(i)].b.res

\* C27 (witness): with allowAny off, a converted album and an entry of the lookup
\* have been copied whole
C27_Witness ==
    /\ pc \in {"step2", "step3"} /\ ~Dest[3]
    /\ \E i \in FullCopies : ops[i].ok /\ ops[LastGetFt(i)].b.how = "converted"
    /\ \E i \in FullCopies : ops[i].ok /\ ops[LastGetFt(i)].b.how = "exact"

-----------------------------------------------------------------------------
(* C28: conversion to a type without encoder arguments *)

\* the calls of convert_src_album for a type get_output_args has no arguments
\* for, the conversion not being prohibited
UnencodableConversions ==
    {i \in 1..Len(ops) :
        /\ ops[i].op = "convert"
        /\ ~HasOutputArgs(ops[i].a.dest_ft)
        /\ ~ConversionProhibited(ops[i].a.src_ft, ops[i].a.dest_ft)}

\* C28 (as claimed): a call of convert_src_album for WAV or M4A returns no album,
\* and no copy_full_album takes the directory such a call made for its album.
C28_UnencodableConversionFails ==
    pc \in {"step2", "step3"} =>
        \A i \in UnencodableConversions :
            /\ ~ops[i].ok
            /\ ops[i].b = None
            /\ \A j \in FullCopies :
                   ops[j].a # album_dir_with_ft(
                                  pass.album_lookup[<<ops[i].a.key, ops[i].a.src_ft>>].album,
                                  pass.album_lookup[<<ops[i].a.key, ops[i].a.src_ft>>].src,
                                  Some(ops[i].a.dest_ft))

-----------------------------------------------------------------------------
(* C29: the key of an album and the directory made for it *)

AlbumDirCalls == {i \in 1..Len(ops) : ops[i].op = "album_dir_with_ft"}

\* C29 (as claimed): the directory album_dir_with_ft computes for an album, for a
\* type or for none, read again relative to the same root with the album's
\* tracks in it, gives one album, and its key is the album's key.
C29_KeySurvivesReparse ==
    \A i \in AlbumDirCalls :
        /\ albums_in_dir(fs, ops[i].a.root_dir) # {}
        /\ \A x \in albums_in_dir(fs, ops[i].a.root_dir) : Key(x) = Key(ops[i].a.album)

-----------------------------------------------------------------------------
(* C30: how often an album is converted *)

\* the calls of convert_src_album that went on to the encoder
Conversions == {i \in 1..Len(ops) : ops[i].op = "convert" /\ ops[i].ok}

\* C30 (as claimed): in one pass convert_src_album runs the encoder at most once
\* for an album key and a desired type.
C30_ConvertedOnce ==
    pc \in {"step2", "step3"} =>
        \A i, j \in Conversions :
            (ops[i].a.key = ops[j].a.key /\ ops[i].a.dest_ft = ops[j].a.dest_ft) => i = j

====
